---- MODULE Spec2Model ----
(***************************************************************************)
(* Model of SpyglassManager (src/src/minecraft/spyglass.ts): the command   *)
(* grammar walkers (validateCommand, traverse, getCommandSemanticTokens,   *)
(* getCommandCompletions), the primary tokenizer and the micro-tokenizers. *)
(*                                                                         *)
(* Strings are sequences of one-character strings.  Offsets are 0-based as *)
(* in the source; Sequences are 1-based, so text[i + 1] is the source's    *)
(* text[i].  Grammar nodes live in a table (a sequence of node records);   *)
(* a node is referred to by its index, which stands for the object         *)
(* reference of the source.                                                *)
(***************************************************************************)
EXTENDS Integers, Sequences, FiniteSets, TLC

VARIABLES
    pending,              \* the initialize calls awaiting their fetch
    initialized,          \* SpyglassManager.initialized
    commandTree,          \* SpyglassManager.commandTree (NoTree = null)
    registries,           \* SpyglassManager.registries
    commandTokensCache,   \* SpyglassManager.commandTokensCache (insertion order)
    command,              \* the command / text handed to the operation
    op,                   \* the operation that ran last ("idle" before a call)
    arg,                  \* the other arguments of that call
    out                   \* what the call returned

vars == <<pending, initialized, commandTree, registries, commandTokensCache,
          command, op, arg, out>>

-----------------------------------------------------------------------------
(* Bounds of the model *)

\* most tokens in a generated command
MaxTokens == 3
\* most characters of the free part of a scanned text
MaxTextLen == 3

-----------------------------------------------------------------------------
(* Characters and strings *)

Digits == {"0", "1", "2", "3", "4", "5", "6", "7", "8", "9"}
Lower == {"a", "b", "c", "d", "e", "f", "g", "h", "i", "j", "k", "l", "m",
          "n", "o", "p", "q", "r", "s", "t", "u", "v", "w", "x", "y", "z"}
Upper == {"A", "B", "C", "D", "E", "F", "G", "H", "I", "J", "K", "L", "M",
          "N", "O", "P", "Q", "R", "S", "T", "U", "V", "W", "X", "Y", "Z"}
\* String.prototype.trim strips these (of the characters the model draws)
WhiteSpace == {" ", "\t", "\n", "\r"}

Min(a, b) == IF a < b THEN a ELSE b
Max(a, b) == IF a > b THEN a ELSE b

\* text.substring(from, to), 0-based, end exclusive, arguments clamped
Substring(s, from, to) ==
    LET f == Max(0, Min(from, Len(s)))
        t == Max(0, Min(to, Len(s)))
    IN SubSeq(s, Min(f, t) + 1, Max(f, t))

\* text.substring(from)
SubstringFrom(s, from) == Substring(s, from, Len(s))

\* s.startsWith(p)
StartsWith(s, p) == Len(s) >= Len(p) /\ SubSeq(s, 1, Len(p)) = p

\* s.includes(c) for a one-character c
IncludesChar(s, c) == \E i \in 1..Len(s) : s[i] = c

\* s.indexOf(c) for a one-character c (0-based, -1 when absent)
IndexOfChar(s, c) ==
    IF IncludesChar(s, c)
    THEN (CHOOSE i \in 1..Len(s) : s[i] = c /\ \A j \in 1..(i - 1) : s[j] # c) - 1
    ELSE -1

\* s.trim()
Trim(s) ==
    IF \A i \in 1..Len(s) : s[i] \in WhiteSpace THEN <<>>
    ELSE LET a == CHOOSE i \in 1..Len(s) :
                      s[i] \notin WhiteSpace /\ \A j \in 1..(i - 1) : s[j] \in WhiteSpace
             b == CHOOSE i \in 1..Len(s) :
                      s[i] \notin WhiteSpace /\ \A j \in (i + 1)..Len(s) : s[j] \in WhiteSpace
         IN SubSeq(s, a, b)

\* /^-?\d+$/
IsIntegerText(s) ==
    LET body == IF Len(s) > 0 /\ s[1] = "-" THEN Tail(s) ELSE s
    IN Len(body) > 0 /\ \A i \in 1..Len(body) : body[i] \in Digits

\* /^-?\d+(\.\d+)?$/
IsDecimalText(s) ==
    LET body == IF Len(s) > 0 /\ s[1] = "-" THEN Tail(s) ELSE s
        dot == IndexOfChar(body, ".")
    IN IF dot = -1
       THEN Len(body) > 0 /\ \A i \in 1..Len(body) : body[i] \in Digits
       ELSE /\ dot > 0
            /\ dot + 1 < Len(body)
            /\ \A i \in 1..Len(body) : i # dot + 1 => body[i] \in Digits

\* /^[a-zA-Z0-9_]+$/
IsNameText(s) ==
    Len(s) > 0 /\ \A i \in 1..Len(s) : s[i] \in Lower \cup Upper \cup Digits \cup {"_"}

-----------------------------------------------------------------------------
(* Grammar nodes *)

NoTree == <<>>
NoRedirect == <<>>
RootId == 1

\* interface CommandNode; children keeps the insertion order of the object
\* parser "" and properties "" (the registry property) stand for absent fields,
\* redirect is NoRedirect or << path >>
Node(type, children, executable, parser, properties, redirect) ==
    [type |-> type, children |-> children, executable |-> executable,
     parser |-> parser, properties |-> properties, redirect |-> redirect]

Child(key, id) == [key |-> key, id |-> id]

\* node.children[key] exists
HasChild(node, key) == \E k \in 1..Len(node.children) : node.children[k].key = key

\* node.children[key] (the node index)
ChildId(node, key) ==
    node.children[CHOOSE k \in 1..Len(node.children) : node.children[k].key = key].id

\* the smallest index of seq whose element satisfies P, 0 when none does
FirstIndex(seq, P(_)) ==
    IF \E k \in 1..Len(seq) : P(seq[k])
    THEN CHOOSE k \in 1..Len(seq) : P(seq[k]) /\ \A j \in 1..(k - 1) : ~P(seq[j])
    ELSE 0

getParserTokenCount(parser) ==
    CASE parser \in {"minecraft:block_pos", "minecraft:vec3"} -> 3
      [] parser \in {"minecraft:column_pos", "minecraft:vec2", "minecraft:rotation"} -> 2
      [] OTHER -> 1

isCoordinateParser(parser) == getParserTokenCount(parser) > 1

RECURSIVE ResolveFrom(_, _, _, _)
\* the loop of resolveRedirect: nodes is the children list looked into,
\* foundNode the node reached so far (0 = null)
ResolveFrom(path, i, children, foundNode) ==
    IF i > Len(path) THEN foundNode
    ELSE LET holder == [children |-> children]
         IN IF HasChild(holder, path[i])
            THEN LET id == ChildId(holder, path[i])
                 IN ResolveFrom(path, i + 1, commandTree[id].children, id)
            ELSE 0

\* resolveRedirect(path): the node index reached, 0 for null
resolveRedirect(path) ==
    IF commandTree = NoTree THEN 0
    ELSE ResolveFrom(path, 1, commandTree[RootId].children, 0)

-----------------------------------------------------------------------------
(* Primary tokenizer *)

RECURSIVE TokenizeFrom(_, _, _)
\* the for loop of tokenize; i is the 0-based index
TokenizeFrom(text, i, st) ==
    IF i >= Len(text)
    THEN IF Len(st.current) > 0 THEN Append(st.tokens, st.current) ELSE st.tokens
    ELSE LET c == text[i + 1]
             \* text[i - 1] !== "\\\\": one character against a two-character string
             prevIsNotEscape == IF i >= 1 THEN text[i] # "\\\\" ELSE TRUE
         IN TokenizeFrom(text, i + 1,
              IF c = "\"" /\ prevIsNotEscape
                THEN [st EXCEPT !.inString = ~st.inString, !.current = Append(st.current, c)]
              ELSE IF st.inString
                THEN [st EXCEPT !.current = Append(st.current, c)]
              ELSE IF c = "{" \/ c = "["
                THEN [st EXCEPT !.braceDepth = st.braceDepth + 1,
                                !.current = Append(st.current, c)]
              ELSE IF c = "}" \/ c = "]"
                THEN [st EXCEPT !.braceDepth = st.braceDepth - 1,
                                !.current = Append(st.current, c)]
              ELSE IF c = " " /\ st.braceDepth = 0
                THEN IF Len(st.current) > 0
                     THEN [st EXCEPT !.tokens = Append(st.tokens, st.current),
                                     !.current = <<>>]
                     ELSE st
              ELSE [st EXCEPT !.current = Append(st.current, c)])

tokenize(text) ==
    TokenizeFrom(text, 0,
        [tokens |-> <<>>, current |-> <<>>, inString |-> FALSE, braceDepth |-> 0])

-----------------------------------------------------------------------------
(* Registries *)

\* "minecraft:" as characters
MinecraftPrefix == <<"m", "i", "n", "e", "c", "r", "a", "f", "t", ":">>

\* the first 0-based index at which sub occurs in s, -1 when it does not
IndexOfSub(s, sub) ==
    LET hits == {i \in 0..(Len(s) - Len(sub)) : SubSeq(s, i + 1, i + Len(sub)) = sub}
    IN IF hits = {} THEN -1 ELSE CHOOSE i \in hits : \A j \in hits : i <= j

\* s.replace(sub, ""): the first occurrence removed
RemoveFirst(s, sub) ==
    LET i == IndexOfSub(s, sub)
    IN IF i = -1 THEN s ELSE SubSeq(s, 1, i) \o SubSeq(s, i + Len(sub) + 1, Len(s))

\* s.replace(/c.*$/, "") for a one-character c: cut at the first c
CutAtChar(s, c) ==
    LET i == IndexOfChar(s, c) IN IF i = -1 THEN s ELSE SubSeq(s, 1, i)

\* entries.includes(id)
SeqIncludes(entries, id) == \E k \in 1..Len(entries) : entries[k] = id

\* this.registries[key] is present
HasRegistry(key) == key \in DOMAIN registries

REGISTRY_PROPERTY_PARSERS ==
    {"minecraft:resource_key", "minecraft:resource", "minecraft:resource_or_tag",
     "minecraft:resource_or_tag_key", "minecraft:resource_selector"}

\* registryMap; "" entries are the source's empty strings
registryMap ==
    [p \in {"minecraft:item_stack", "minecraft:item_predicate", "minecraft:block_state",
            "minecraft:block_predicate", "minecraft:entity_summon", "minecraft:mob_effect",
            "minecraft:enchantment", "minecraft:particle", "minecraft:attribute",
            "minecraft:dimension", "minecraft:game_profile", "minecraft:score_holder",
            "minecraft:resource_location", "minecraft:function", "minecraft:time",
            "minecraft:uuid", "minecraft:color", "minecraft:swizzle", "minecraft:team",
            "minecraft:objective", "minecraft:loot_table", "minecraft:recipe",
            "minecraft:advancement", "minecraft:sound", "minecraft:fluid",
            "minecraft:potion", "minecraft:sound_event"} |->
        CASE p \in {"minecraft:item_stack", "minecraft:item_predicate"} -> "item"
          [] p \in {"minecraft:block_state", "minecraft:block_predicate"} -> "block"
          [] p = "minecraft:entity_summon" -> "entity_type"
          [] p = "minecraft:mob_effect" -> "mob_effect"
          [] p = "minecraft:enchantment" -> "enchantment"
          [] p = "minecraft:particle" -> "particle_type"
          [] p = "minecraft:attribute" -> "attribute"
          [] p = "minecraft:dimension" -> "dimension"
          [] p = "minecraft:function" -> "function"
          [] p = "minecraft:loot_table" -> "loot_table"
          [] p = "minecraft:recipe" -> "recipe"
          [] p = "minecraft:advancement" -> "advancement"
          [] p \in {"minecraft:sound", "minecraft:sound_event"} -> "sound_event"
          [] p = "minecraft:fluid" -> "fluid"
          [] p = "minecraft:potion" -> "potion"
          [] OTHER -> ""]

\* parser.split(":")[1] for the parser ids the model's grammars use that
\* registryMap does not list; "" when the id holds no ":"
ParserBareKey(parser) ==
    CASE parser = "minecraft:entity" -> "entity"
      [] parser = "minecraft:vec3" -> "vec3"
      [] parser = "minecraft:vec2" -> "vec2"
      [] parser = "minecraft:block_pos" -> "block_pos"
      [] parser = "minecraft:column_pos" -> "column_pos"
      [] parser = "minecraft:rotation" -> "rotation"
      [] parser = "minecraft:gamemode" -> "gamemode"
      [] parser = "minecraft:nbt_compound_tag" -> "nbt_compound_tag"
      [] parser = "minecraft:nbt_tag" -> "nbt_tag"
      [] parser = "minecraft:nbt_path" -> "nbt_path"
      [] parser = "brigadier:integer" -> "integer"
      [] parser = "brigadier:float" -> "float"
      [] parser = "brigadier:double" -> "double"
      [] parser = "brigadier:bool" -> "bool"
      [] parser = "brigadier:string" -> "string"
      [] OTHER -> ""

\* properties.registry with a leading "minecraft:" removed
StripRegistryNamespace(reg) ==
    CASE reg = "minecraft:item" -> "item"
      [] reg = "minecraft:block" -> "block"
      [] reg = "minecraft:entity_type" -> "entity_type"
      [] OTHER -> reg

\* resourceLocationRegistryMap[nodeName]; "" for undefined
resourceLocationRegistryMap(nodeName) ==
    CASE nodeName = <<"a", "d", "v", "a", "n", "c", "e", "m", "e", "n", "t">> -> "advancement"
      [] nodeName = <<"l", "o", "o", "t", "_", "t", "a", "b", "l", "e">> -> "loot_table"
      [] nodeName = <<"p", "r", "e", "d", "i", "c", "a", "t", "e">> -> "predicate"
      [] nodeName = <<"r", "e", "c", "i", "p", "e">> -> "recipe"
      [] nodeName = <<"s", "t", "r", "u", "c", "t", "u", "r", "e">> -> "structure"
      [] OTHER -> ""

\* resolveRegistryKey(node, nodeName); "" for undefined
resolveRegistryKey(node, nodeName) ==
    LET parser == node.parser
        mapped == IF parser \in DOMAIN registryMap THEN registryMap[parser] ELSE ""
        bareKey == ParserBareKey(parser)
        heuristic == resourceLocationRegistryMap(nodeName)
    IN IF parser = "" THEN ""
       ELSE IF parser \in REGISTRY_PROPERTY_PARSERS
         THEN IF node.properties # "" /\ HasRegistry(StripRegistryNamespace(node.properties))
              THEN StripRegistryNamespace(node.properties)
              ELSE ""
       ELSE IF mapped # "" /\ HasRegistry(mapped) THEN mapped
       ELSE IF parser \notin DOMAIN registryMap /\ bareKey # "" /\ HasRegistry(bareKey)
         THEN bareKey
       ELSE IF parser = "minecraft:resource_location" /\ heuristic # "" /\ HasRegistry(heuristic)
         THEN heuristic
       ELSE IF parser = "minecraft:loot_table" /\ HasRegistry("loot_table")
         THEN "loot_table"
       ELSE ""

-----------------------------------------------------------------------------
(* Validator *)

\* a CommandValidationError; message keeps its parts apart
Error(start, length, message, severity) ==
    [start |-> start, length |-> length, message |-> message, severity |-> severity]

NoError == <<>>

\* parser.includes("entity"), over the parser ids the model's grammars use
ParserIncludesEntity(parser) ==
    parser \in {"minecraft:entity", "minecraft:entity_summon", "minecraft:entity_anchor"}

gamemodes == << <<"s", "u", "r", "v", "i", "v", "a", "l">>,
                <<"c", "r", "e", "a", "t", "i", "v", "e">>,
                <<"a", "d", "v", "e", "n", "t", "u", "r", "e">>,
                <<"s", "p", "e", "c", "t", "a", "t", "o", "r">> >>

\* the per-parser value check of validateArgument: the error, or NoError
ArgumentFormatError(token, parser, offset) ==
    IF parser = "brigadier:integer"
      THEN IF ~IsIntegerText(token)
           THEN Error(offset, Len(token), [kind |-> "Expected integer", token |-> token], "error")
           ELSE NoError
    ELSE IF parser \in {"brigadier:float", "brigadier:double"}
      THEN IF ~IsDecimalText(token)
           THEN Error(offset, Len(token), [kind |-> "Expected number", token |-> token], "error")
           ELSE NoError
    ELSE IF parser = "brigadier:bool"
      THEN IF token # <<"t", "r", "u", "e">> /\ token # <<"f", "a", "l", "s", "e">>
           THEN Error(offset, Len(token), [kind |-> "Expected boolean", token |-> token], "error")
           ELSE NoError
    ELSE IF parser = "minecraft:gamemode"
      THEN IF ~SeqIncludes(gamemodes, token)
           THEN Error(offset, Len(token), [kind |-> "Invalid gamemode", token |-> token], "error")
           ELSE NoError
    ELSE IF ParserIncludesEntity(parser)
            \/ parser \in {"minecraft:score_holder", "minecraft:game_profile"}
      THEN IF ~StartsWith(token, <<"@">>) /\ ~IsNameText(token)
           THEN Error(offset, Len(token),
                      [kind |-> "Invalid entity selector or player name", token |-> token],
                      "warning")
           ELSE NoError
    ELSE NoError

\* the registry-membership check of validateArgument: the warning, or NoError
ArgumentRegistryError(token, node, offset) ==
    LET registryKey == resolveRegistryKey(node, <<>>)
        normalizedToken == IF StartsWith(token, <<"#">>) THEN Tail(token) ELSE token
        fullId == IF IncludesChar(normalizedToken, ":") THEN normalizedToken
                  ELSE MinecraftPrefix \o normalizedToken
        baseId == CutAtChar(CutAtChar(fullId, "["), "{")
    IN IF registryKey # "" /\ HasRegistry(registryKey)
       THEN IF /\ ~SeqIncludes(registries[registryKey], baseId)
               /\ ~SeqIncludes(registries[registryKey], RemoveFirst(baseId, MinecraftPrefix))
            THEN Error(offset, Len(token),
                       [kind |-> "Unknown registry entry", registry |-> registryKey,
                        id |-> baseId], "warning")
            ELSE NoError
       ELSE NoError

\* validateArgument(token, node, offset): a format error returns at once,
\* the registry check runs only when the format check passed
validateArgument(token, node, offset) ==
    IF node.parser = "" THEN NoError
    ELSE IF ArgumentFormatError(token, node.parser, offset) # NoError
      THEN ArgumentFormatError(token, node.parser, offset)
    ELSE ArgumentRegistryError(token, node, offset)

RECURSIVE ExpectedOfChildren(_, _)
ExpectedOfChildren(children, k) ==
    IF k > Len(children) THEN <<>>
    ELSE LET child == commandTree[children[k].id]
             here == IF child.type = "literal"
                       THEN << [placeholder |-> FALSE, key |-> children[k].key] >>
                     ELSE IF child.type = "argument"
                       THEN << [placeholder |-> TRUE, key |-> children[k].key] >>
                     ELSE <<>>
         IN here \o ExpectedOfChildren(children, k + 1)

RECURSIVE ExpectedOfNodes(_, _)
ExpectedOfNodes(nodes, k) ==
    IF k > Len(nodes) THEN <<>>
    ELSE ExpectedOfChildren(commandTree[nodes[k]].children, 1) \o ExpectedOfNodes(nodes, k + 1)

\* getExpectedTokens(nodes): key for a literal, <key> (placeholder) for an argument
getExpectedTokens(nodes) == ExpectedOfNodes(nodes, 1)

\* `Expected: ${slice(0, 5).join(", ")}${length > 5 ? "..." : ""}`
ExpectedMessage(kind, token, expectedTokens) ==
    [kind |-> kind, token |-> token,
     expected |-> SubSeq(expectedTokens, 1, Min(5, Len(expectedTokens))),
     ellipsis |-> Len(expectedTokens) > 5]

\* a matched child whose redirect does not resolve sends the walk back to the root
TargetOrRoot(id) ==
    LET n == commandTree[id]
    IN IF n.redirect = NoRedirect THEN id
       ELSE IF resolveRedirect(n.redirect[1]) # 0 THEN resolveRedirect(n.redirect[1])
       ELSE RootId

\* the node a matched child continues from: the redirect target when the
\* child carries a redirect that resolves, the child itself otherwise
TargetOf(id) ==
    LET n == commandTree[id]
    IN IF n.redirect # NoRedirect /\ resolveRedirect(n.redirect[1]) # 0
       THEN resolveRedirect(n.redirect[1])
       ELSE id

\* node.children[token]?.type === "literal"
HasLiteralChild(id, token) ==
    /\ HasChild(commandTree[id], token)
    /\ commandTree[ChildId(commandTree[id], token)].type = "literal"

\* some child of the node is an argument
HasArgumentChild(id) ==
    \E k \in 1..Len(commandTree[id].children) :
        commandTree[commandTree[id].children[k].id].type = "argument"

\* the first argument child of a node (its entry in children)
FirstArgumentChild(id) ==
    LET ch == commandTree[id].children
    IN ch[CHOOSE k \in 1..Len(ch) :
              /\ commandTree[ch[k].id].type = "argument"
              /\ \A j \in 1..(k - 1) : commandTree[ch[j].id].type # "argument"]

\* one iteration of the while loop of validateCommand
ValidateIter(tokens, st) ==
    LET token == tokens[st.tokenIndex + 1]
        litAt == FirstIndex(st.currentNodes, LAMBDA id : HasLiteralChild(id, token))
        foundLiteral == litAt # 0
        litChild == ChildId(commandTree[st.currentNodes[litAt]], token)
        argAt == IF foundLiteral THEN 0
                 ELSE FirstIndex(st.currentNodes, LAMBDA id : HasArgumentChild(id))
        argChild == FirstArgumentChild(st.currentNodes[argAt]).id
        matched == IF foundLiteral THEN litChild ELSE argChild
        foundMatch == foundLiteral \/ argAt # 0
        nextNodes == IF foundMatch THEN <<TargetOf(matched)>> ELSE <<>>
        hasRedirect == foundMatch /\ commandTree[matched].redirect # NoRedirect
        argSkip == IF argAt # 0
                   THEN Max(0, getParserTokenCount(commandTree[argChild].parser) - 1)
                   ELSE 0
        hasExecutable1 == st.hasExecutable \/ (foundMatch /\ commandTree[matched].executable)
        validationError == IF argAt # 0
                           THEN validateArgument(token, commandTree[argChild], st.currentOffset)
                           ELSE NoError
        errors1 == IF validationError # NoError
                   THEN Append(st.errors, validationError) ELSE st.errors
        expectedTokens == getExpectedTokens(st.currentNodes)
        errors2 == IF ~foundMatch /\ st.tokenIndex > 0 /\ Len(expectedTokens) > 0
                   THEN Append(errors1,
                            Error(st.currentOffset, Len(token),
                                  ExpectedMessage("Unexpected argument", token, expectedTokens),
                                  "error"))
                   ELSE errors1
        isRun == token = <<"r", "u", "n">>
        hasExecutable2 == IF isRun THEN FALSE ELSE hasExecutable1
        step == 1 + (IF foundLiteral THEN 0 ELSE argSkip)
    IN [currentNodes |-> IF isRun THEN <<RootId>>
                         ELSE IF Len(nextNodes) > 0 THEN nextNodes
                         ELSE st.currentNodes,
        tokenIndex |-> st.tokenIndex + step,
        currentOffset |-> st.currentOffset + Len(token) + 1,
        hasExecutable |-> IF hasRedirect /\ st.tokenIndex + step < Len(tokens)
                          THEN FALSE ELSE hasExecutable2,
        errors |-> errors2]

RECURSIVE ValidateLoop(_, _)
\* while (tokenIndex < tokens.length)
ValidateLoop(tokens, st) ==
    IF st.tokenIndex < Len(tokens) THEN ValidateLoop(tokens, ValidateIter(tokens, st)) ELSE st

\* the tree walk of validateCommand over its tokens: the loop state it ends in
ValidateWalk(tokens, start) ==
    ValidateLoop(tokens,
        [currentNodes |-> <<RootId>>, tokenIndex |-> 0, currentOffset |-> start,
         hasExecutable |-> FALSE, errors |-> <<>>])

\* the end-of-input check of validateCommand
IncompleteErrors(cmd, options, st) ==
    LET hasExecutableNode ==
            st.hasExecutable
            \/ \E k \in 1..Len(st.currentNodes) : commandTree[st.currentNodes[k]].executable
        expectedTokens == getExpectedTokens(st.currentNodes)
    IN IF /\ ~options.ignoreIncomplete
          /\ ~hasExecutableNode
          /\ st.currentNodes[1] # RootId
          /\ Len(expectedTokens) > 0
       THEN << Error(0, Len(cmd),
                     ExpectedMessage("Incomplete command", <<>>, expectedTokens), "error") >>
       ELSE <<>>

\* validateCommand(command, options): the list of errors
validateCommand(cmd, options) ==
    LET slash == StartsWith(cmd, <<"/">>)
        cleanCommand == IF slash THEN Tail(cmd) ELSE cmd
        tokens == tokenize(Trim(cleanCommand))
        start == IF slash THEN 1 ELSE 0
        fin == ValidateWalk(tokens, start)
        \* children is a plain object (JSON.parse), so children[key] is also
        \* truthy for the property names every object inherits
        inherited ==
            {
              <<"c", "o", "n", "s", "t", "r", "u", "c", "t", "o", "r">>,
              <<"h", "a", "s", "O", "w", "n", "P", "r", "o", "p", "e", "r", "t", "y">>,
              <<"i", "s", "P", "r", "o", "t", "o", "t", "y", "p", "e", "O", "f">>,
              <<"p", "r", "o", "p", "e", "r", "t", "y", "I", "s", "E", "n", "u", "m", "e", "r", "a", "b", "l", "e">>,
              <<"t", "o", "L", "o", "c", "a", "l", "e", "S", "t", "r", "i", "n", "g">>,
              <<"t", "o", "S", "t", "r", "i", "n", "g">>,
              <<"v", "a", "l", "u", "e", "O", "f">>,
              <<"_", "_", "p", "r", "o", "t", "o", "_", "_">>,
              <<"_", "_", "d", "e", "f", "i", "n", "e", "G", "e", "t", "t", "e", "r", "_", "_">>,
              <<"_", "_", "d", "e", "f", "i", "n", "e", "S", "e", "t", "t", "e", "r", "_", "_">>,
              <<"_", "_", "l", "o", "o", "k", "u", "p", "G", "e", "t", "t", "e", "r", "_", "_">>,
              <<"_", "_", "l", "o", "o", "k", "u", "p", "S", "e", "t", "t", "e", "r", "_", "_">> }
        \* this.commandTree.children[firstToken]
        known == HasChild(commandTree[RootId], tokens[1]) \/ tokens[1] \in inherited
    IN IF ~initialized \/ commandTree = NoTree THEN <<>>
       ELSE IF Trim(cleanCommand) = <<>> THEN <<>>
       ELSE IF Len(tokens) = 0 THEN <<>>
       ELSE IF ~known
         THEN << Error(start, Len(tokens[1]),
                       [kind |-> "Unknown command", token |-> tokens[1]], "error") >>
       ELSE fin.errors \o IncompleteErrors(cmd, options, fin)

-----------------------------------------------------------------------------
(* Tree traversal *)

RECURSIVE TraverseChildren(_, _, _, _)
\* the inner for loop of traverse over the children of one node; acc holds
\* nextNodes, foundLiteral and argSkip
TraverseChildren(children, k, token, acc) ==
    IF k > Len(children) THEN acc
    ELSE LET child == commandTree[children[k].id]
             targetNode == TargetOf(children[k].id)
         IN TraverseChildren(children, k + 1, token,
              IF child.type = "literal"
                THEN IF children[k].key = token
                     THEN [acc EXCEPT !.nextNodes = Append(acc.nextNodes, targetNode),
                                      !.foundLiteral = TRUE]
                     ELSE acc
              ELSE IF child.type = "argument"
                THEN [acc EXCEPT !.nextNodes = Append(acc.nextNodes, targetNode),
                                 !.argSkip = Max(acc.argSkip,
                                                 getParserTokenCount(child.parser) - 1)]
              ELSE acc)

RECURSIVE TraverseNodes(_, _, _, _)
\* the outer for loop of traverse over currentNodes
TraverseNodes(nodes, k, token, acc) ==
    IF k > Len(nodes) THEN acc
    ELSE TraverseNodes(nodes, k + 1, token,
             TraverseChildren(commandTree[nodes[k]].children, 1, token, acc))

\* what one token does to the node set in traverse
TraverseMatch(currentNodes, token) ==
    TraverseNodes(currentNodes, 1, token,
        [nextNodes |-> <<>>, foundLiteral |-> FALSE, argSkip |-> 0])

RECURSIVE TraverseLoopCountsCurrent(_, _, _)
\* traverse with the token in hand counted among the remaining ones
TraverseLoopCountsCurrent(args, i, currentNodes) ==
    IF i >= Len(args) THEN [nodes |-> currentNodes, midCoord |-> 0]
    ELSE LET m == TraverseMatch(currentNodes, args[i + 1])
             skip == IF m.foundLiteral THEN 0 ELSE m.argSkip
             remaining == Len(args) - i
         IN IF Len(m.nextNodes) = 0 THEN [nodes |-> <<>>, midCoord |-> 0]
            ELSE IF ~m.foundLiteral /\ skip > 0 /\ remaining < skip
              THEN [nodes |-> m.nextNodes, midCoord |-> skip - remaining]
            ELSE TraverseLoopCountsCurrent(args, i + 1 + skip, m.nextNodes)

RECURSIVE TraverseLoop(_, _, _)
\* while (i < args.length) of traverse
TraverseLoop(args, i, currentNodes) ==
    IF i >= Len(args) THEN [nodes |-> currentNodes, midCoord |-> 0]
    ELSE LET m == TraverseMatch(currentNodes, args[i + 1])
             skip == IF m.foundLiteral THEN 0 ELSE m.argSkip
             remaining == Len(args) - (i + 1)
         IN IF Len(m.nextNodes) = 0 THEN [nodes |-> <<>>, midCoord |-> 0]
            ELSE IF ~m.foundLiteral /\ skip > 0 /\ remaining < skip
              THEN [nodes |-> m.nextNodes, midCoord |-> skip - remaining]
            ELSE TraverseLoop(args, i + 1 + skip, m.nextNodes)

\* traverse(root, args)
traverse(root, args) == TraverseLoop(args, 0, <<root>>)

-----------------------------------------------------------------------------
(* Completion engine *)

\* a completion item; insertText and sortText are <<>> when the source sets none
Item(label, kind, detail, insertText, sortText) ==
    [label |-> label, kind |-> kind, detail |-> detail,
     insertText |-> insertText, sortText |-> sortText]

SeqRange(s) == {s[k] : k \in 1..Len(s)}

RECURSIVE Dedupe(_)
\* s with every later repetition of an element dropped
Dedupe(s) ==
    IF s = <<>> THEN <<>>
    ELSE LET front == Dedupe(SubSeq(s, 1, Len(s) - 1))
         IN IF s[Len(s)] \in SeqRange(front) THEN front ELSE Append(front, s[Len(s)])

\* for each label in order: if (!seenLabels.has(label)) { items.push(mk(label)); seenLabels.add(label) }
AddUnseen(acc, labels, mk(_)) ==
    LET fresh == Dedupe(SelectSeq(labels, LAMBDA l : l \notin acc.seen))
    IN [items |-> acc.items \o [k \in 1..Len(fresh) |-> mk(fresh[k])],
        seen |-> acc.seen \cup SeqRange(fresh)]

\* for each label in order: items.push(mk(label)), seenLabels not consulted
AddAll(acc, labels, mk(_)) ==
    [items |-> acc.items \o [k \in 1..Len(labels) |-> mk(labels[k])],
     seen |-> acc.seen]

\* s.includes(sub)
IncludesSub(s, sub) == IndexOfSub(s, sub) # -1

\* s.split(c) for a one-character c
RECURSIVE SplitChar(_, _)
SplitChar(s, c) ==
    LET i == IndexOfChar(s, c)
    IN IF i = -1 THEN <<s>>
       ELSE <<SubSeq(s, 1, i)>> \o SplitChar(SubSeq(s, i + 2, Len(s)), c)

\* s.split(":")[1]?.startsWith(input)
SecondPartStartsWith(s, input) ==
    Len(SplitChar(s, ":")) >= 2 /\ StartsWith(SplitChar(s, ":")[2], input)

\* addRegistryCompletions(items, registryKey, currentInput, seenLabels, isTag, isNegated)
addRegistryCompletions(acc, registryKey, currentInput, isTag, isNegated) ==
    IF ~HasRegistry(registryKey) THEN acc
    ELSE LET FullId(id) == IF IncludesChar(id, ":") THEN id ELSE MinecraftPrefix \o id
             Matches(id) ==
                 \/ currentInput = <<>>
                 \/ IncludesSub(id, currentInput)
                 \/ IncludesSub(FullId(id), currentInput)
                 \/ SecondPartStartsWith(id, currentInput)
                 \/ SecondPartStartsWith(FullId(id), currentInput)
             Label(id) == (IF isNegated THEN <<"!">> ELSE <<>>)
                          \o (IF isTag THEN <<"#">> ELSE <<>>) \o FullId(id)
             hits == SelectSeq(registries[registryKey], Matches)
         IN AddUnseen(acc, [k \in 1..Len(hits) |-> Label(hits[k])],
                      LAMBDA l : Item(l, "Value", registryKey, <<>>, <<"1", "_">> \o l))

\* addSingleCoordinateCompletions(items, currentInput, seenLabels)
addSingleCoordinateCompletions(acc, currentInput) ==
    AddUnseen(acc,
        SelectSeq(<< <<"~">>, <<"^">>, <<"0">> >>, LAMBDA v : StartsWith(v, currentInput)),
        LAMBDA v : Item(v, "Value", "Coordinate", <<>>, <<"0", "_">> \o v))

\* addCoordinateCompletions(items, parser, currentInput, seenLabels)
addCoordinateCompletions(acc, parser, currentInput) ==
    LET axes3 == getParserTokenCount(parser) = 3
        snippets ==
            IF axes3
            THEN << [label |-> <<"~", " ", "~", " ", "~">>, detail |-> "Relative coordinates"],
                    [label |-> <<"^", " ", "^", " ", "^">>, detail |-> "Local coordinates"],
                    [label |-> <<"0", " ", "0", " ", "0">>, detail |-> "Absolute coordinates"] >>
            ELSE << [label |-> <<"~", " ", "~">>, detail |-> "Relative"],
                    [label |-> <<"^", " ", "^">>, detail |-> "Local"],
                    [label |-> <<"0", " ", "0">>, detail |-> "Absolute"] >>
        hits == SelectSeq(snippets,
                    LAMBDA s : currentInput = <<>> \/ StartsWith(s.label, currentInput))
        DetailOf(l) == (CHOOSE s \in SeqRange(snippets) : s.label = l).detail
    IN addSingleCoordinateCompletions(
           AddUnseen(acc, [k \in 1..Len(hits) |-> hits[k].label],
               LAMBDA l : Item(l, "Snippet", DetailOf(l), l, <<"0", "_">> \o l)),
           currentInput)

colors == << <<"b", "l", "a", "c", "k">>, <<"d", "a", "r", "k", "_", "b", "l", "u", "e">>, <<"d", "a", "r", "k", "_", "g", "r", "e", "e", "n">>, <<"d", "a", "r", "k", "_", "a", "q", "u", "a">>, <<"d", "a", "r", "k", "_", "r", "e", "d">>,
             <<"d", "a", "r", "k", "_", "p", "u", "r", "p", "l", "e">>, <<"g", "o", "l", "d">>, <<"g", "r", "a", "y">>, <<"d", "a", "r", "k", "_", "g", "r", "a", "y">>, <<"b", "l", "u", "e">>, <<"g", "r", "e", "e", "n">>,
             <<"a", "q", "u", "a">>, <<"r", "e", "d">>, <<"l", "i", "g", "h", "t", "_", "p", "u", "r", "p", "l", "e">>, <<"y", "e", "l", "l", "o", "w">>, <<"w", "h", "i", "t", "e">>, <<"r", "e", "s", "e", "t">> >>

selectors == << <<"@", "p">>, <<"@", "a">>, <<"@", "r">>, <<"@", "s">>, <<"@", "e">> >>

\* addArgumentCompletions(items, node, currentInput, seenLabels, nodeName)
addArgumentCompletions(acc, node, currentInput, nodeName) ==
    LET parser == node.parser
        registryKey == resolveRegistryKey(node, nodeName)
        isTag == parser \in {"minecraft:resource_or_tag", "minecraft:resource_or_tag_key"}
        tagKey == "tag/" \o registryKey
        Prefixed(cands) == SelectSeq(cands, LAMBDA c : StartsWith(c, currentInput))
        withRegistry == addRegistryCompletions(acc, registryKey, currentInput, FALSE, FALSE)
    IN IF parser = "" THEN acc
       ELSE IF isCoordinateParser(parser)
         THEN addCoordinateCompletions(acc, parser, currentInput)
       ELSE IF registryKey # ""
         THEN IF isTag /\ HasRegistry(tagKey)
              THEN addRegistryCompletions(withRegistry, tagKey,
                       IF StartsWith(currentInput, <<"#">>) THEN Tail(currentInput)
                       ELSE currentInput,
                       TRUE, FALSE)
              ELSE withRegistry
       ELSE IF parser = "brigadier:bool"
         THEN AddUnseen(acc, Prefixed(<< <<"t", "r", "u", "e">>, <<"f", "a", "l", "s", "e">> >>),
                        LAMBDA l : Item(l, "Keyword", "Boolean", <<>>, <<>>))
       ELSE IF ParserIncludesEntity(parser)
               \/ parser \in {"minecraft:score_holder", "minecraft:game_profile"}
         THEN AddUnseen(acc, Prefixed(selectors),
                        LAMBDA l : Item(l, "Value", "Selector", <<>>, <<>>))
       ELSE IF parser = "minecraft:gamemode"
         THEN AddUnseen(acc, Prefixed(gamemodes),
                        LAMBDA l : Item(l, "EnumMember", "Game mode", <<>>, <<>>))
       ELSE IF parser = "minecraft:color"
         THEN AddUnseen(acc, Prefixed(colors),
                        LAMBDA l : Item(l, "Color", "Color", <<>>, <<>>))
       ELSE IF parser = "minecraft:resource_location"
         THEN AddUnseen(acc, SelectSeq(<<MinecraftPrefix>>,
                                       LAMBDA l : StartsWith(l, currentInput)),
                        LAMBDA l : Item(l, "Value", "Namespace", <<>>, <<>>))
       ELSE acc

\* textBeforeCursor.match(/(@[a-z])\[([^\]]*)$/): the 0-based index of the
\* leftmost match, -1 when there is none
SelectorMatchIndex(t) ==
    LET hits == {i \in 0..(Len(t) - 3) :
                    /\ t[i + 1] = "@"
                    /\ t[i + 2] \in Lower
                    /\ t[i + 3] = "["
                    /\ \A j \in (i + 4)..Len(t) : t[j] # "]"}
    IN IF hits = {} THEN -1 ELSE CHOOSE i \in hits : \A j \in hits : i <= j

\* s.replace("!", "")
StripBang(s) == RemoveFirst(s, <<"!">>)

selectorKeys == << <<"t", "y", "p", "e">>, <<"t", "a", "g">>, <<"n", "a", "m", "e">>, <<"d", "i", "s", "t", "a", "n", "c", "e">>, <<"l", "e", "v", "e", "l">>, <<"x">>, <<"y">>,
                   <<"z">>, <<"d", "x">>, <<"d", "y">>, <<"d", "z">>, <<"g", "a", "m", "e", "m", "o", "d", "e">>, <<"s", "c", "o", "r", "e", "s">>,
                   <<"a", "d", "v", "a", "n", "c", "e", "m", "e", "n", "t", "s">>, <<"n", "b", "t">>, <<"l", "i", "m", "i", "t">>, <<"s", "o", "r", "t">>, <<"x", "_", "r", "o", "t", "a", "t", "i", "o", "n">>,
                   <<"y", "_", "r", "o", "t", "a", "t", "i", "o", "n">>, <<"t", "e", "a", "m">> >>

\* /Tags\s*:\s*\[/ matched at 0-based index i of s: the index just after the
\* "[", -1 when it does not match there
TagsListEnd(s, i) ==
    LET \* the first 1-based position from j on that holds no white space
        afterWs(j) ==
            IF \E k \in j..Len(s) : s[k] \notin WhiteSpace
            THEN CHOOSE k \in j..Len(s) :
                     s[k] \notin WhiteSpace /\ \A m \in j..(k - 1) : s[m] \in WhiteSpace
            ELSE Len(s) + 1
        colon == afterWs(i + 5)
        bracket == afterWs(colon + 1)
    IN IF /\ i + 4 <= Len(s)
          /\ SubSeq(s, i + 1, i + 4) = <<"T", "a", "g", "s">>
          /\ colon <= Len(s) /\ s[colon] = ":"
          /\ bracket <= Len(s) /\ s[bracket] = "["
       THEN bracket
       ELSE -1

\* /Tags\s*:\s*\[[^\]]*$/.test(s)
TagsListOpen(s) ==
    \E i \in 0..Len(s) :
        /\ TagsListEnd(s, i) # -1
        /\ \A j \in (TagsListEnd(s, i) + 1)..Len(s) : s[j] # "]"

\* /Tags\s*:\s*\[(.*)$/.exec(s)[1]: what follows the leftmost match
TagsListContent(s) ==
    LET hits == {i \in 0..Len(s) : TagsListEnd(s, i) # -1}
        first == CHOOSE i \in hits : \A j \in hits : i <= j
    IN SubstringFrom(s, TagsListEnd(s, first))

\* s.lastIndexOf("{")
LastIndexOfBrace(s) ==
    (CHOOSE i \in 1..Len(s) : s[i] = "{" /\ \A j \in (i + 1)..Len(s) : s[j] # "{") - 1

\* s.replace(/^"|"$/g, "")
StripQuotes(s) ==
    LET a == IF Len(s) > 0 /\ s[1] = "\"" THEN Tail(s) ELSE s
    IN IF Len(a) > 0 /\ a[Len(a)] = "\"" THEN SubSeq(a, 1, Len(a) - 1) ELSE a

\* the selector-bracket context of getCommandCompletions: returned is whether
\* the function returns from it, and the items it then returns
SelectorCompletions(textBeforeCursor, availableTags) ==
    LET at == SelectorMatchIndex(textBeforeCursor)
        selectorContent == SubstringFrom(textBeforeCursor, at + 3)
        parts == SplitChar(selectorContent, ",")
        lastPart == Trim(parts[Len(parts)])
        kv == SplitChar(lastPart, "=")
        key == Trim(kv[1])
        val == Trim(kv[2])
        empty == [items |-> <<>>, seen |-> {}]
        Returned(acc) == [returned |-> TRUE, items |-> acc.items]
        goesOn == [returned |-> FALSE, items |-> <<>>]
    IN IF at = -1 THEN goesOn
       ELSE IF IncludesChar(lastPart, "=")
         THEN IF key = <<"t", "y", "p", "e">>
                THEN Returned(addRegistryCompletions(
                         addRegistryCompletions(empty, "entity_type", val, FALSE, FALSE),
                         "entity_type", StripBang(val), FALSE, TRUE))
              ELSE IF key = <<"g", "a", "m", "e", "m", "o", "d", "e">>
                THEN Returned(AddAll(empty,
                         SelectSeq(gamemodes, LAMBDA m : StartsWith(m, val)),
                         LAMBDA m : Item(m, "EnumMember", "", <<>>, <<>>)))
              ELSE IF key = <<"t", "a", "g">>
                THEN Returned(AddAll(empty,
                         SelectSeq(availableTags,
                             LAMBDA t : StartsWith(t, val) \/ StartsWith(t, StripBang(val))),
                         LAMBDA t : Item(t, "Value", "Tag", <<>>, <<>>)))
              ELSE goesOn
       ELSE Returned(AddAll(empty,
                SelectSeq(selectorKeys, LAMBDA k : StartsWith(k, lastPart)),
                LAMBDA k : Item(k, "Property", "", k \o <<"=">>, <<>>)))

RECURSIVE CompleteChildren(_, _, _, _)
\* the inner loop of the default context over the children of one node
CompleteChildren(children, k, currentInput, acc) ==
    IF k > Len(children) THEN acc
    ELSE LET child == commandTree[children[k].id]
             key == children[k].key
         IN CompleteChildren(children, k + 1, currentInput,
              IF child.type = "literal"
                THEN AddUnseen(acc,
                         SelectSeq(<<key>>, LAMBDA l : StartsWith(l, currentInput)),
                         LAMBDA l : Item(l, "Keyword", "Literal", <<>>, <<"0", "_">> \o l))
              ELSE IF child.type = "argument"
                THEN addArgumentCompletions(acc, child, currentInput, key)
              ELSE acc)

RECURSIVE CompleteNodes(_, _, _, _)
\* for (const node of contextNodes)
CompleteNodes(nodes, k, currentInput, acc) ==
    IF k > Len(nodes) THEN acc
    ELSE CompleteNodes(nodes, k + 1, currentInput,
             CompleteChildren(commandTree[nodes[k]].children, 1, currentInput, acc))

\* getCommandCompletions(command, cursorOffset, availableTags): the items
\* cleanCommand.substring(0, effectiveOffset)
TextBeforeCursor(cmd, cursorOffset) ==
    LET slash == StartsWith(cmd, <<"/">>)
    IN Substring(IF slash THEN Tail(cmd) ELSE cmd, 0,
                 cursorOffset - (IF slash THEN 1 ELSE 0))

\* textBeforeCursor.endsWith(" ")
IsNewToken(textBeforeCursor) ==
    Len(textBeforeCursor) > 0 /\ textBeforeCursor[Len(textBeforeCursor)] = " "

\* completedArgs: the tokens before the cursor but the one being typed
CompletedArgs(textBeforeCursor) ==
    LET tokens == tokenize(Trim(textBeforeCursor))
    IN IF IsNewToken(textBeforeCursor) THEN tokens
       ELSE SubSeq(tokens, 1, Len(tokens) - 1)

getCommandCompletions(cmd, cursorOffset, availableTags) ==
    LET slash == StartsWith(cmd, <<"/">>)
        effectiveOffset == cursorOffset - (IF slash THEN 1 ELSE 0)
        textBeforeCursor == TextBeforeCursor(cmd, cursorOffset)
        inSelector == SelectorCompletions(textBeforeCursor, availableTags)
        tokens == tokenize(Trim(textBeforeCursor))
        isNewToken == IsNewToken(textBeforeCursor)
        completedArgs == CompletedArgs(textBeforeCursor)
        currentInput == IF isNewToken \/ Len(tokens) = 0 THEN <<>> ELSE tokens[Len(tokens)]
        \* the `tag <targets> add|remove <name>` special case
        afterTag ==
            IF /\ Len(completedArgs) >= 2
               /\ completedArgs[1] = <<"t", "a", "g">>
               /\ Len(completedArgs) = 3
               /\ completedArgs[3] \in {<<"a", "d", "d">>, <<"r", "e", "m", "o", "v", "e">>}
            THEN AddUnseen([items |-> <<>>, seen |-> {}],
                     SelectSeq(availableTags, LAMBDA t : StartsWith(t, currentInput)),
                     LAMBDA t : Item(t, "Value", "Tag", <<>>, <<>>))
            ELSE [items |-> <<>>, seen |-> {}]
        walked == traverse(RootId, completedArgs)
        nbtPart == SubstringFrom(currentInput, LastIndexOfBrace(currentInput))
        content == TagsListContent(nbtPart)
        contentParts == SplitChar(content, ",")
        currentTag == StripQuotes(Trim(contentParts[Len(contentParts)]))
    IN IF ~initialized \/ commandTree = NoTree THEN <<>>
       ELSE IF effectiveOffset < 0 THEN <<>>
       ELSE IF inSelector.returned THEN inSelector.items
       ELSE IF walked.midCoord > 0
         THEN addSingleCoordinateCompletions(afterTag, currentInput).items
       ELSE IF IncludesChar(currentInput, "{") /\ TagsListOpen(nbtPart)
         THEN AddUnseen(afterTag,
                  SelectSeq(availableTags, LAMBDA t : StartsWith(t, currentTag)),
                  LAMBDA t : Item(t, "Value", "Tag", <<"\"">> \o t \o <<"\"">>, <<>>)).items
       ELSE CompleteNodes(walked.nodes, 1, currentInput, afterTag).items

-----------------------------------------------------------------------------
(* Micro-tokenizers                                                        *)
(*                                                                         *)
(* A scanner state is [pos, tokens, stuck]: the source's pos and tokens,   *)
(* and stuck, TRUE once a scan loop has run an iteration that left pos     *)
(* where it was.  Such an iteration repeats forever in the source (the     *)
(* body is a function of pos alone), so stuck stands for a call that never *)
(* returns; every caller hands a stuck state on unchanged.                 *)

Span(start, length, tokenType) ==
    [start |-> start, length |-> length, tokenType |-> tokenType]

\* emit(start, len, type) of the tokenizers: nothing is pushed for len <= 0
Emit(st, baseOffset, start, len, tokenType) ==
    IF len > 0
    THEN [st EXCEPT !.tokens = Append(st.tokens, Span(baseOffset + start, len, tokenType))]
    ELSE st

\* text[pos] === ch, false at and past the end
At(text, pos, ch) == pos >= 0 /\ pos < Len(text) /\ text[pos + 1] = ch

RECURSIVE SkipWhile(_, _, _)
\* while (pos < text.length && text[pos] in chars) pos++
SkipWhile(text, pos, chars) ==
    IF pos < Len(text) /\ text[pos + 1] \in chars
    THEN SkipWhile(text, pos + 1, chars) ELSE pos

RECURSIVE SkipUntil(_, _, _)
\* while (pos < text.length && text[pos] not in stops) pos++
SkipUntil(text, pos, stops) ==
    IF pos < Len(text) /\ text[pos + 1] \notin stops
    THEN SkipUntil(text, pos + 1, stops) ELSE pos

\* skipWs
SkipWs(text, st) == [st EXCEPT !.pos = SkipWhile(text, st.pos, {" "})]

RECURSIVE QuotedBody(_, _, _)
\* while (pos < text.length && text[pos] !== q) { if (text[pos] === "\\") pos++; pos++; }
QuotedBody(text, pos, q) ==
    IF pos < Len(text) /\ text[pos + 1] # q
    THEN QuotedBody(text, IF text[pos + 1] = "\\" THEN pos + 2 ELSE pos + 1, q)
    ELSE pos

\* the position after a quoted string that opens at pos: the opening quote,
\* the body, and the closing quote when the text holds one
QuotedEnd(text, pos) ==
    LET body == QuotedBody(text, pos + 1, text[pos + 1])
    IN IF body < Len(text) THEN body + 1 ELSE body

\* the depth scan `for (let i = pos; ...)`: the index after the closer that
\* brings depth back to 0, pos itself when there is none
RECURSIVE MatchingEnd(_, _, _, _, _, _)
MatchingEnd(text, pos, i, depth, opener, closer) ==
    IF i >= Len(text) THEN pos
    ELSE IF text[i + 1] = opener
      THEN MatchingEnd(text, pos, i + 1, depth + 1, opener, closer)
    ELSE IF text[i + 1] = closer
      THEN IF depth - 1 = 0 THEN i + 1
           ELSE MatchingEnd(text, pos, i + 1, depth - 1, opener, closer)
    ELSE MatchingEnd(text, pos, i + 1, depth, opener, closer)

\* if (pos === startPos) pos++ : the forced advance that ends an iteration
\* the loops without their forced advance
NoForcedAdvance(pos, startPos) == pos

ForcedAdvance(pos, startPos) == IF pos = startPos THEN pos + 1 ELSE pos

\* the end of one loop iteration that began at startPos: the forced advance,
\* and stuck when pos still did not move
EndIteration(st, startPos) ==
    LET p == ForcedAdvance(st.pos, startPos)
    IN [st EXCEPT !.pos = p, !.stuck = st.stuck \/ p <= startPos]

UnquotedChars == Lower \cup Upper \cup Digits \cup {".", "_", "+", "-", ":", "/"}

\* /^[-+]?[0-9]+(\.[0-9]+)?[bBsSlLfFdD]?$/
IsNbtNumber(w) ==
    LET Number(b, dot) ==
            IF dot = -1 THEN Len(b) > 0 /\ \A i \in 1..Len(b) : b[i] \in Digits
            ELSE /\ dot > 0
                 /\ dot + 1 < Len(b)
                 /\ \A i \in 1..Len(b) : i # dot + 1 => b[i] \in Digits
        \* without the type suffix
        Unsuffixed(b) == Number(b, IndexOfChar(b, "."))
        \* without the sign
        Unsigned(a) ==
            Unsuffixed(IF Len(a) > 0
                          /\ a[Len(a)] \in {"b", "B", "s", "S", "l", "L", "f", "F", "d", "D"}
                       THEN SubSeq(a, 1, Len(a) - 1) ELSE a)
    IN Unsigned(IF Len(w) > 0 /\ w[1] \in {"-", "+"} THEN Tail(w) ELSE w)

\* classifyWord(word, start)
ClassifyWord(st, baseOffset, word, start) ==
    LET Qualified(ci) ==
            Emit(Emit(Emit(st, baseOffset, start, ci, "type"),
                      baseOffset, start + ci, 1, "operator"),
                 baseOffset, start + ci + 1, Len(word) - ci - 1, "type")
    IN IF Len(word) = 0 THEN st
       ELSE IF word = <<"t", "r", "u", "e">> \/ word = <<"f", "a", "l", "s", "e">>
         THEN Emit(st, baseOffset, start, Len(word), "enumMember")
       ELSE IF IsNbtNumber(word)
         THEN Emit(st, baseOffset, start, Len(word), "number")
       ELSE IF IncludesChar(word, ":")
         THEN Qualified(IndexOfChar(word, ":"))
       ELSE Emit(st, baseOffset, start, Len(word), "string")

\* if (at(ch)) { emit(pos, 1, "operator"); pos++; }
TakeOperator(text, st, baseOffset, ch) ==
    IF At(text, st.pos, ch)
    THEN [Emit(st, baseOffset, st.pos, 1, "operator") EXCEPT !.pos = st.pos + 1]
    ELSE st

RECURSIVE ReadValue(_, _, _)
RECURSIVE ReadCompound(_, _, _)
RECURSIVE CompoundLoop(_, _, _)
RECURSIVE ReadList(_, _, _)
RECURSIVE ListLoop(_, _, _)

\* readQuotedString
ReadQuotedString(text, baseOffset, st) ==
    LET Upto(e) == [Emit(st, baseOffset, st.pos, e - st.pos, "string") EXCEPT !.pos = e]
    IN Upto(QuotedEnd(text, st.pos))

\* readValue
ReadValue(text, baseOffset, st0) ==
    LET Unquoted(st, e) ==
            ClassifyWord([st EXCEPT !.pos = e], baseOffset, Substring(text, st.pos, e), st.pos)
        Value(st) ==
            IF st.pos >= Len(text) THEN st
            ELSE IF text[st.pos + 1] = "{" THEN ReadCompound(text, baseOffset, st)
            ELSE IF text[st.pos + 1] = "[" THEN ReadList(text, baseOffset, st)
            ELSE IF text[st.pos + 1] \in {"\"", "'"} THEN ReadQuotedString(text, baseOffset, st)
            ELSE Unquoted(st, SkipWhile(text, st.pos, UnquotedChars))
    IN Value(SkipWs(text, st0))

\* one pass of the while loop of readCompound, then the rest of the loop
CompoundLoop(text, baseOffset, st) ==
    IF st.stuck \/ ~(st.pos < Len(text) /\ text[st.pos + 1] # "}") THEN st
    ELSE LET \* the comma, the forced advance and the next iteration
             AfterValue(s4) ==
                 IF s4.stuck THEN s4
                 ELSE CompoundLoop(text, baseOffset,
                          EndIteration(TakeOperator(text, SkipWs(text, s4), baseOffset, ","),
                                       st.pos))
             \* the key from s1.pos to keyEnd, the colon and the value
             AfterKey(s1, keyEnd) ==
                 AfterValue(ReadValue(text, baseOffset,
                     TakeOperator(text,
                         SkipWs(text, [Emit(s1, baseOffset, s1.pos, keyEnd - s1.pos, "property")
                                          EXCEPT !.pos = keyEnd]),
                         baseOffset, ":")))
             Iteration(s1) ==
                 IF s1.pos >= Len(text) \/ text[s1.pos + 1] = "}" THEN s1
                 ELSE AfterKey(s1, IF text[s1.pos + 1] \in {"\"", "'"}
                                   THEN QuotedEnd(text, s1.pos)
                                   ELSE SkipWhile(text, s1.pos, UnquotedChars))
         IN Iteration(SkipWs(text, st))

\* readCompound
ReadCompound(text, baseOffset, st) ==
    LET Close(s2) == IF s2.stuck THEN s2 ELSE TakeOperator(text, s2, baseOffset, "}")
    IN Close(CompoundLoop(text, baseOffset,
                 SkipWs(text, [Emit(st, baseOffset, st.pos, 1, "operator")
                                  EXCEPT !.pos = st.pos + 1])))

\* one pass of the while loop of readList, then the rest of the loop
ListLoop(text, baseOffset, st) ==
    IF st.stuck \/ ~(st.pos < Len(text) /\ text[st.pos + 1] # "]") THEN st
    ELSE LET \* the comma, the forced advance and the next iteration
             AfterValue(s2) ==
                 IF s2.stuck THEN s2
                 ELSE ListLoop(text, baseOffset,
                          EndIteration(TakeOperator(text, SkipWs(text, s2), baseOffset, ","),
                                       st.pos))
             Iteration(s1) ==
                 IF s1.pos >= Len(text) \/ text[s1.pos + 1] = "]" THEN s1
                 ELSE AfterValue(ReadValue(text, baseOffset, s1))
         IN Iteration(SkipWs(text, st))

\* readList
ReadList(text, baseOffset, st) ==
    LET Close(s3) == IF s3.stuck THEN s3 ELSE TakeOperator(text, s3, baseOffset, "]")
        \* the prefix of a typed array: B; I; or L;
        TypePrefix(s1) ==
            IF /\ s1.pos + 1 < Len(text)
               /\ text[s1.pos + 1] \in {"B", "I", "L"}
               /\ text[s1.pos + 2] = ";"
            THEN [Emit(Emit(s1, baseOffset, s1.pos, 1, "keyword"),
                       baseOffset, s1.pos + 1, 1, "operator") EXCEPT !.pos = s1.pos + 2]
            ELSE s1
    IN Close(ListLoop(text, baseOffset,
                 TypePrefix(SkipWs(text, [Emit(st, baseOffset, st.pos, 1, "operator")
                                             EXCEPT !.pos = st.pos + 1]))))

\* the scanner state a tokenizer starts from
ScanStart == [pos |-> 0, tokens |-> <<>>, stuck |-> FALSE]

\* tokenizeNbt(text, baseOffset), as a scanner state (tokens is what it returns)
tokenizeNbt(text, baseOffset) ==
    LET Start(s1) == IF s1.pos < Len(text) THEN ReadValue(text, baseOffset, s1) ELSE s1
    IN Start(SkipWs(text, ScanStart))

\* tokens.push(...this.tokenizeNbt(slice, baseOffset + pos)); pos = end
NestedNbt(st, slice, offset, end) ==
    LET Joined(sub) ==
            [pos |-> end, tokens |-> st.tokens \o sub.tokens, stuck |-> sub.stuck]
    IN IF st.stuck THEN st ELSE Joined(tokenizeNbt(slice, offset))

RECURSIVE BlockStateLoop(_, _, _)
\* the while loop of tokenizeBlockState
BlockStateLoop(text, baseOffset, st) ==
    IF st.stuck \/ ~(st.pos < Len(text) /\ text[st.pos + 1] # "]") THEN st
    ELSE LET Next(s4) == BlockStateLoop(text, baseOffset, [s4 EXCEPT !.stuck = s4.pos <= st.pos])
             \* the value from s2.pos to ve, and the comma
             Value(s2, ve) ==
                 Next(TakeOperator(text,
                          [Emit(s2, baseOffset, s2.pos, ve - s2.pos, "enumMember")
                              EXCEPT !.pos = ve],
                          baseOffset, ","))
             AfterKey(s2) == Value(s2, SkipUntil(text, s2.pos, {",", "]"}))
             \* the key from st.pos to ke, and the "="
             Key(ke) ==
                 AfterKey(TakeOperator(text,
                              [Emit(st, baseOffset, st.pos, ke - st.pos, "property")
                                  EXCEPT !.pos = ke],
                              baseOffset, "="))
         IN Key(SkipWhile(text, st.pos, Lower \cup {"_"}))

\* tokenizeBlockState(text, baseOffset): tokens and consumed (= pos)
tokenizeBlockState(text, baseOffset) ==
    IF At(text, 0, "[")
    THEN LET Close(s1) == IF s1.stuck THEN s1 ELSE TakeOperator(text, s1, baseOffset, "]")
         IN Close(BlockStateLoop(text, baseOffset,
                      [Emit(ScanStart, baseOffset, 0, 1, "operator") EXCEPT !.pos = 1]))
    ELSE ScanStart

\* one pass of the while loop of tokenizeNbtPath
PathIter(text, baseOffset, st) ==
    LET pos == st.pos
        ch == text[pos + 1]
        Close(b2) == IF b2.stuck THEN b2 ELSE TakeOperator(text, b2, baseOffset, "]")
        \* the end of the compound that opens at from
        CompoundEnd(from) == MatchingEnd(text, from, from, 0, "{", "}")
        \* after the "["
        b1 == [Emit(st, baseOffset, pos, 1, "operator") EXCEPT !.pos = pos + 1]
        Index(ne) ==
            [Emit(b1, baseOffset, pos + 1, ne - (pos + 1), "number") EXCEPT !.pos = ne]
        Quoted(qe) == [Emit(st, baseOffset, pos, qe - pos, "property") EXCEPT !.pos = qe]
        Name(ke) ==
            [Emit(st, baseOffset, pos, ke - pos, "property")
                EXCEPT !.pos = IF ke = pos THEN pos + 1 ELSE ke]
    IN IF ch = "{"
         THEN NestedNbt(st, Substring(text, pos, CompoundEnd(pos)), baseOffset + pos,
                        CompoundEnd(pos))
       ELSE IF ch = "["
         THEN Close(IF At(text, pos + 1, "{")
                    THEN NestedNbt(b1, Substring(text, pos + 1, CompoundEnd(pos + 1)),
                                   baseOffset + pos + 1, CompoundEnd(pos + 1))
                    ELSE Index(SkipWhile(text, pos + 1, Digits)))
       ELSE IF ch = "."
         THEN [Emit(st, baseOffset, pos, 1, "operator") EXCEPT !.pos = pos + 1]
       ELSE IF ch \in {"\"", "'"}
         THEN Quoted(QuotedEnd(text, pos))
       ELSE Name(SkipWhile(text, pos, Lower \cup Upper \cup Digits \cup {"_"}))

RECURSIVE PathLoop(_, _, _)
\* while (pos < text.length) of tokenizeNbtPath
PathLoop(text, baseOffset, st) ==
    IF st.stuck \/ ~(st.pos < Len(text)) THEN st
    ELSE LET Next(next) ==
                 PathLoop(text, baseOffset,
                     [next EXCEPT !.stuck = next.stuck \/ next.pos <= st.pos])
         IN Next(PathIter(text, baseOffset, st))

\* tokenizeNbtPath(text, baseOffset)
tokenizeNbtPath(text, baseOffset) == PathLoop(text, baseOffset, ScanStart)

\* tokenizeIdSuffix(text, baseOffset)
tokenizeIdSuffix(text, baseOffset) ==
    LET open == At(text, 0, "[")
        end == MatchingEnd(text, 0, 0, 0, "[", "]")
        \* pos after the block state, if there is one
        pos == IF open THEN end ELSE 0
        Block(block) == [pos |-> end, tokens |-> block.tokens, stuck |-> block.stuck]
        \* the compound that may follow
        Nbt(s1) ==
            IF At(text, pos, "{")
            THEN NestedNbt(s1, SubstringFrom(text, pos), baseOffset + pos, pos)
            ELSE s1
    IN Nbt(IF open THEN Block(tokenizeBlockState(Substring(text, 0, end), baseOffset))
           ELSE ScanStart)

\* valueText.split("..") : the first two parts
DotDotParts(v) ==
    LET Second(rest, j) == IF j = -1 THEN rest ELSE SubSeq(rest, 1, j)
        Rest(rest) == Second(rest, IndexOfSub(rest, <<".", ".">>))
        First(i) == << SubSeq(v, 1, i), Rest(SubSeq(v, i + 3, Len(v))) >>
    IN First(IndexOfSub(v, <<".", ".">>))

\* the unquoted, non-nbt value of a selector entry: valueText classified
SelectorValue(st, baseOffset, valueStart, valueText) ==
    LET Qualified(ci) ==
            Emit(Emit(Emit(st, baseOffset, valueStart, ci, "namespace"),
                      baseOffset, valueStart + ci, 1, "operator"),
                 baseOffset, valueStart + ci + 1, Len(valueText) - ci - 1, "type")
        \* one bound of a range: a number when it is an integer
        Bound(s, from, part) ==
            IF Len(part) > 0 /\ IsIntegerText(part)
            THEN Emit(s, baseOffset, from, Len(part), "number") ELSE s
        Range(low, high) ==
            Bound(Emit(Bound(st, valueStart, low),
                       baseOffset, valueStart + Len(low), 2, "operator"),
                  valueStart + Len(low) + 2, high)
        Parts(parts) == Range(parts[1], parts[2])
    IN IF IncludesSub(valueText, <<".", ".">>) THEN Parts(DotDotParts(valueText))
       ELSE IF IsDecimalText(valueText)
         THEN Emit(st, baseOffset, valueStart, Len(valueText), "number")
       ELSE IF valueText = <<"t", "r", "u", "e">> \/ valueText = <<"f", "a", "l", "s", "e">>
         THEN Emit(st, baseOffset, valueStart, Len(valueText), "enumMember")
       ELSE IF IncludesChar(valueText, ":")
         THEN Qualified(IndexOfChar(valueText, ":"))
       ELSE Emit(st, baseOffset, valueStart, Len(valueText), "class")

\* one pass of the while loop of tokenizeSelector, up to the forced advance
SelectorIter(text, baseOffset, st) ==
    LET keyEnd == SkipWhile(text, st.pos, Lower \cup {"_"})
        \* after the key, "=" and "!" with the spaces around them
        s4 == SkipWs(text,
                TakeOperator(text,
                    SkipWs(text,
                        TakeOperator(text,
                            SkipWs(text, [Emit(st, baseOffset, st.pos, keyEnd - st.pos, "property")
                                             EXCEPT !.pos = keyEnd]),
                            baseOffset, "=")),
                    baseOffset, "!"))
        valueStart == s4.pos
        nbtEnd == MatchingEnd(text, valueStart, valueStart, 0, "{", "}")
        Quoted(qe) ==
            [Emit(s4, baseOffset, valueStart, qe - valueStart, "string") EXCEPT !.pos = qe]
        Plain(ve) ==
            [SelectorValue(s4, baseOffset, valueStart, Substring(text, valueStart, ve))
                EXCEPT !.pos = ve]
        Comma(s5) == IF s5.stuck THEN s5 ELSE TakeOperator(text, s5, baseOffset, ",")
    IN Comma(IF At(text, valueStart, "{")
               THEN NestedNbt(s4, Substring(text, valueStart, nbtEnd),
                              baseOffset + valueStart, nbtEnd)
             ELSE IF At(text, valueStart, "\"")
               THEN Quoted(QuotedEnd(text, valueStart))
             ELSE Plain(SkipUntil(text, valueStart, {",", "]"})))

RECURSIVE SelectorLoop(_, _, _)
\* the while loop of tokenizeSelector
SelectorLoop(text, baseOffset, st) ==
    IF st.stuck \/ ~(st.pos < Len(text) /\ text[st.pos + 1] # "]") THEN st
    ELSE LET s1 == SkipWs(text, st)
             AfterEntry(s2) ==
                 IF s2.stuck THEN s2
                 ELSE SelectorLoop(text, baseOffset, EndIteration(s2, st.pos))
         IN IF s1.pos >= Len(text) \/ text[s1.pos + 1] = "]" THEN s1
            ELSE AfterEntry(SelectorIter(text, baseOffset, s1))

\* tokenizeSelector(text, baseOffset)
tokenizeSelector(text, baseOffset) ==
    LET Close(s2) == IF s2.stuck THEN s2 ELSE TakeOperator(text, s2, baseOffset, "]")
        \* the selector head @x
        SelectorHead == [Emit(ScanStart, baseOffset, 0, 2, "enum") EXCEPT !.pos = 2]
    IN IF ~(1 < Len(text) /\ text[1] = "@")
         THEN Emit(ScanStart, baseOffset, 0, Len(text), "variable")
       ELSE IF ~At(text, 2, "[") THEN SelectorHead
       ELSE Close(SelectorLoop(text, baseOffset,
                      [Emit(SelectorHead, baseOffset, 2, 1, "operator") EXCEPT !.pos = 3]))

\* mapParserToTokenType(parser)
mapParserToTokenType(parser) ==
    CASE parser = "" -> "variable"
      [] parser \in {"brigadier:string", "brigadier:text"} -> "string"
      [] parser \in {"brigadier:integer", "brigadier:float", "brigadier:double",
                     "brigadier:long"} -> "number"
      [] parser = "brigadier:bool" -> "enumMember"
      \* parser.startsWith("minecraft:entity"), over the parser ids of the model
      [] parser \in {"minecraft:entity", "minecraft:entity_summon", "minecraft:entity_anchor",
                     "minecraft:game_profile", "minecraft:score_holder"} -> "variable"
      [] parser \in {"minecraft:objective", "minecraft:team"} -> "class"
      [] parser = "minecraft:objective_criteria" -> "enum"
      [] parser \in {"minecraft:function", "minecraft:loot_table", "minecraft:loot_predicate",
                     "minecraft:loot_modifier", "minecraft:resource_location"} -> "method"
      [] parser \in {"minecraft:resource_key", "minecraft:resource",
                     "minecraft:resource_or_tag", "minecraft:resource_or_tag_key",
                     "minecraft:resource_selector"} -> "type"
      [] parser \in {"minecraft:block_state", "minecraft:block_predicate",
                     "minecraft:item_stack", "minecraft:item_predicate"} -> "type"
      [] parser \in {"minecraft:nbt_compound_tag", "minecraft:nbt_tag"} -> "interface"
      [] parser = "minecraft:nbt_path" -> "property"
      [] parser \in {"minecraft:gamemode", "minecraft:color", "minecraft:hex_color"} -> "enum"
      [] parser \in {"minecraft:block_pos", "minecraft:column_pos", "minecraft:vec2",
                     "minecraft:vec3", "minecraft:rotation", "minecraft:int_range",
                     "minecraft:float_range", "minecraft:time"} -> "number"
      [] parser \in {"minecraft:message", "minecraft:component", "minecraft:style"} -> "string"
      [] parser = "minecraft:dimension" -> "namespace"
      [] parser \in {"minecraft:swizzle", "minecraft:item_slot", "minecraft:item_slots",
                     "minecraft:scoreboard_slot"} -> "property"
      [] parser = "minecraft:operation" -> "operator"
      [] OTHER -> "variable"

\* [a-z0-9_.-] and [a-z0-9_./-]
NamespaceChars == Lower \cup Digits \cup {"_", ".", "-"}
PathChars == NamespaceChars \cup {"/"}

\* workText.match(/^([a-z0-9_.-]+:[a-z0-9_./-]+|[a-z0-9_./-]+)/): the length
\* of the match, 0 when there is none
IdMatchLength(w) ==
    LET Path(ns, path) ==
            IF ns > 0 /\ At(w, ns, ":") /\ path > ns + 1 THEN path
            ELSE SkipWhile(w, 0, PathChars)
        Namespace(ns) == Path(ns, SkipWhile(w, ns + 1, PathChars))
    IN Namespace(SkipWhile(w, 0, NamespaceChars))

\* the resource-location branch of parseComplexArgument
ResourceLocationTokens(text, startOffset, parser) ==
    LET tagged == StartsWith(text, <<"#">>)
        idStart == startOffset + (IF tagged THEN 1 ELSE 0)
        workText == IF tagged THEN Tail(text) ELSE text
        s0 == IF tagged THEN Emit(ScanStart, startOffset, 0, 1, "operator") ELSE ScanStart
        pathTokenType == IF parser \in {"minecraft:function", "minecraft:resource_location",
                                        "minecraft:loot_table", "minecraft:loot_predicate"}
                         THEN "method" ELSE "type"
        idLen == IdMatchLength(workText)
        id == SubSeq(workText, 1, idLen)
        \* these are pushed whatever their length
        IdTokens(parts) ==
            IF Len(parts) > 1
            THEN [s0 EXCEPT !.tokens = s0.tokens \o
                     << Span(idStart, Len(parts[1]), pathTokenType),
                        Span(idStart + Len(parts[1]), 1, "operator"),
                        Span(idStart + Len(parts[1]) + 1, Len(parts[2]), pathTokenType) >>]
            ELSE [s0 EXCEPT !.tokens = Append(s0.tokens, Span(idStart, Len(id), pathTokenType))]
        WithSuffix(s1, suffix) ==
            [s1 EXCEPT !.tokens = s1.tokens \o suffix.tokens, !.stuck = suffix.stuck]
    IN IF idLen = 0 THEN s0
       ELSE IF Len(workText) > idLen
         THEN WithSuffix(IdTokens(SplitChar(id, ":")),
                         tokenizeIdSuffix(SubstringFrom(workText, idLen), idStart + idLen))
       ELSE IdTokens(SplitChar(id, ":"))

\* parseComplexArgument(text, startOffset, parser), as a scanner state
parseComplexArgument(text, startOffset, parser) ==
    LET whole(tokenType) ==
            [ScanStart EXCEPT !.tokens = << Span(startOffset, Len(text), tokenType) >>]
        \* the fall-through of the resource-location branch: nothing pushed
        OrWhole(found) ==
            IF ~found.stuck /\ Len(found.tokens) = 0 THEN whole(mapParserToTokenType(parser))
            ELSE found
    IN IF parser \in {"minecraft:score_holder", "minecraft:game_profile"}
         THEN IF StartsWith(text, <<"@">>) THEN tokenizeSelector(text, startOffset)
              ELSE whole("parameter")
       ELSE IF ParserIncludesEntity(parser) THEN tokenizeSelector(text, startOffset)
       ELSE IF parser \in {"minecraft:nbt_compound_tag", "minecraft:nbt_tag"}
         THEN tokenizeNbt(text, startOffset)
       ELSE IF parser = "minecraft:nbt_path" THEN tokenizeNbtPath(text, startOffset)
       ELSE IF parser \in {"minecraft:resource_location", "minecraft:block_state",
                           "minecraft:block_predicate", "minecraft:item_stack",
                           "minecraft:item_predicate"} \cup REGISTRY_PROPERTY_PARSERS
         THEN OrWhole(ResourceLocationTokens(text, startOffset, parser))
       ELSE whole(mapParserToTokenType(parser))

-----------------------------------------------------------------------------
(* Semantic classifier *)

MAX_CACHE_SIZE == 100

RECURSIVE RangesFrom(_, _, _)
\* the for loop of tokenizeWithRanges; i is the 0-based index
RangesFrom(text, i, st0) ==
    IF i >= Len(text)
    THEN IF Len(st0.current) > 0
         THEN Append(st0.tokens, [value |-> st0.current, start |-> st0.startIndex,
                                  length |-> Len(st0.current)])
         ELSE st0.tokens
    ELSE LET c == text[i + 1]
             st == IF st0.startIndex = -1 /\ c # " "
                   THEN [st0 EXCEPT !.startIndex = i] ELSE st0
             \* text[i - 1] !== "\\\\": one character against a two-character string
             prevIsNotEscape == IF i >= 1 THEN text[i] # "\\\\" ELSE TRUE
         IN RangesFrom(text, i + 1,
              IF c = "\"" /\ prevIsNotEscape
                THEN [st EXCEPT !.inString = ~st.inString, !.current = Append(st.current, c)]
              ELSE IF st.inString
                THEN [st EXCEPT !.current = Append(st.current, c)]
              ELSE IF c = "{" \/ c = "["
                THEN [st EXCEPT !.braceDepth = st.braceDepth + 1,
                                !.current = Append(st.current, c)]
              ELSE IF c = "}" \/ c = "]"
                THEN [st EXCEPT !.braceDepth = st.braceDepth - 1,
                                !.current = Append(st.current, c)]
              ELSE IF c = " " /\ st.braceDepth = 0
                THEN IF Len(st.current) > 0
                     THEN [st EXCEPT !.tokens =
                               Append(st.tokens, [value |-> st.current, start |-> st.startIndex,
                                                  length |-> Len(st.current)]),
                                     !.current = <<>>, !.startIndex = -1]
                     ELSE st
              ELSE IF st.startIndex # -1
                THEN [st EXCEPT !.current = Append(st.current, c)]
              ELSE st)

\* tokenizeWithRanges with the first token taken to start at offset 0
tokenizeWithRangesFromZero(text) ==
    RangesFrom(text, 0, [tokens |-> <<>>, current |-> <<>>, startIndex |-> 0,
                         inString |-> FALSE, braceDepth |-> 0])

tokenizeWithRanges(text) ==
    RangesFrom(text, 0, [tokens |-> <<>>, current |-> <<>>, startIndex |-> -1,
                         inString |-> FALSE, braceDepth |-> 0])

\* no line terminator in s: what "." of a regular expression accepts
NoLineBreak(s) == \A k \in 1..Len(s) : s[k] \notin {"\n", "\r"}

\* /^@[aeprs](\[.*\])?$/
IsSelectorToken(v) ==
    /\ Len(v) >= 2 /\ v[1] = "@" /\ v[2] \in {"a", "e", "p", "r", "s"}
    /\ \/ Len(v) = 2
       \/ Len(v) >= 4 /\ v[3] = "[" /\ v[Len(v)] = "]" /\ NoLineBreak(v)

\* /^\{.*\}$/
IsNbtToken(v) == Len(v) >= 2 /\ v[1] = "{" /\ v[Len(v)] = "}" /\ NoLineBreak(v)

\* /^-?\d+(\.\d+)?[bslfd]?$/i
IsNumberToken(v) ==
    \/ IsDecimalText(v)
    \/ /\ Len(v) >= 2
       /\ v[Len(v)] \in {"b", "s", "l", "f", "d", "B", "S", "L", "F", "D"}
       /\ IsDecimalText(SubSeq(v, 1, Len(v) - 1))

\* (\{.*\})?(\[.*\])?$ matched against the rest r of a token
IsIdTail(r) ==
    /\ NoLineBreak(r)
    /\ \/ r = <<>>
       \/ Len(r) >= 2 /\ r[1] = "{" /\ r[Len(r)] = "}"
       \/ Len(r) >= 2 /\ r[1] = "[" /\ r[Len(r)] = "]"
       \/ /\ Len(r) >= 4 /\ r[1] = "{" /\ r[Len(r)] = "]"
          /\ \E k \in 2..(Len(r) - 2) : r[k] = "}" /\ r[k + 1] = "["

\* /^#?[a-z0-9_.-]+:[a-z0-9_/.:-]+(\{.*\})?(\[.*\])?$/
IsResourceLocationToken(v) ==
    LET w == IF StartsWith(v, <<"#">>) THEN Tail(v) ELSE v
        ns == SkipWhile(w, 0, NamespaceChars)
        path == SkipWhile(w, ns + 1, PathChars \cup {":"})
    IN ns > 0 /\ At(w, ns, ":") /\ path > ns + 1 /\ IsIdTail(SubstringFrom(w, path))

\* /^#?[a-z0-9_.-]+:[a-z0-9_/.:-]+$/
IsPlainResourceLocation(v) ==
    LET w == IF StartsWith(v, <<"#">>) THEN Tail(v) ELSE v
        ns == SkipWhile(w, 0, NamespaceChars)
        path == SkipWhile(w, ns + 1, PathChars \cup {":"})
    IN ns > 0 /\ At(w, ns, ":") /\ path > ns + 1 /\ path = Len(w)

\* isComplexByParser
IsComplexParser(parser) ==
    \/ ParserIncludesEntity(parser)
    \/ parser \in {"minecraft:score_holder", "minecraft:game_profile",
                   "minecraft:resource_location", "minecraft:block_state",
                   "minecraft:block_predicate", "minecraft:item_stack",
                   "minecraft:item_predicate", "minecraft:nbt_compound_tag",
                   "minecraft:nbt_tag", "minecraft:nbt_path"}
    \/ parser \in REGISTRY_PROPERTY_PARSERS

RECURSIVE CoordinateTokens(_, _, _, _)
\* the for loop that marks the tokens of a coordinate argument as numbers
CoordinateTokens(ranges, st, j, count) ==
    IF j < count /\ st.tokenIndex < Len(ranges)
    THEN LET coordToken == ranges[st.tokenIndex + 1]
         IN CoordinateTokens(ranges,
                [st EXCEPT !.tokens = Append(st.tokens,
                                Span(coordToken.start, coordToken.length, "number")),
                           !.tokenIndex = st.tokenIndex + 1],
                j + 1, count)
    ELSE st

\* one iteration of the while loop of getCommandSemanticTokens; done is set by
\* the break taken when nothing matches
ClassifyIter(ranges, st) ==
    LET token == ranges[st.tokenIndex + 1]
        tokenValue == IF StartsWith(token.value, <<"/">>) THEN Tail(token.value) ELSE token.value
        \* the first node with a literal child of that name and, when there is
        \* none, the first node with an argument child
        litAt == FirstIndex(st.currentNodes, LAMBDA id : HasLiteralChild(id, tokenValue))
        argAt == IF litAt # 0 THEN 0
                 ELSE FirstIndex(st.currentNodes, LAMBDA id : HasArgumentChild(id))
        child == IF litAt # 0 THEN ChildId(commandTree[st.currentNodes[litAt]], tokenValue)
                 ELSE FirstArgumentChild(st.currentNodes[argAt]).id
        isRun == tokenValue = <<"r", "u", "n">>
        isSelector == IsSelectorToken(token.value)
        isResourceLocation == IsResourceLocationToken(token.value)
        isNbt == IsNbtToken(token.value)
        \* matchedNode is the node the walk goes on from, parser its parser
        Matched(matchedNode, parser) ==
            [s1 |-> [st EXCEPT
                       !.isFirstLiteral = IF litAt # 0 THEN FALSE ELSE st.isFirstLiteral,
                       !.afterRun = IF litAt # 0 THEN isRun ELSE st.afterRun,
                       !.currentNodes = IF isRun THEN <<RootId>> ELSE <<matchedNode>>],
             parser |-> parser,
             matchType |-> IF litAt # 0
                           THEN (IF st.isFirstLiteral \/ st.afterRun THEN "keyword"
                                 ELSE "function")
                           ELSE mapParserToTokenType(commandTree[child].parser),
             effectiveParser |-> IF parser # "" THEN parser
                                 ELSE IF isSelector THEN "minecraft:entity"
                                 ELSE IF isResourceLocation THEN "minecraft:resource_location"
                                 ELSE IF isNbt THEN "minecraft:nbt_compound_tag"
                                 ELSE ""]
        Target(matchedNode) == Matched(matchedNode, commandTree[matchedNode].parser)
        Complex(s1, sub) ==
            [s1 EXCEPT !.tokens = s1.tokens \o sub.tokens,
                       !.stuck = sub.stuck,
                       !.tokenIndex = s1.tokenIndex + 1]
        One(s1, tokenType) ==
            [s1 EXCEPT !.tokens = Append(s1.tokens, Span(token.start, token.length, tokenType)),
                       !.tokenIndex = s1.tokenIndex + 1]
        \* the tokens pushed for the match m
        Classified(m) ==
            IF m.parser # "" /\ isCoordinateParser(m.parser)
              THEN CoordinateTokens(ranges, m.s1, 0, getParserTokenCount(m.parser))
            ELSE IF (m.parser # "" /\ IsComplexParser(m.parser))
                    \/ isSelector \/ isResourceLocation \/ isNbt
              THEN Complex(m.s1, parseComplexArgument(token.value, token.start,
                                                      m.effectiveParser))
            ELSE IF IsNumberToken(token.value) THEN One(m.s1, "number")
            ELSE One(m.s1, IF m.parser # "" THEN mapParserToTokenType(m.parser)
                           ELSE m.matchType)
    IN IF litAt = 0 /\ argAt = 0 THEN [st EXCEPT !.done = TRUE]
       ELSE Classified(Target(TargetOf(child)))

RECURSIVE ClassifyLoop(_, _)
\* while (tokenIndex < ranges.length)
ClassifyLoop(ranges, st) ==
    IF st.tokenIndex < Len(ranges) /\ ~st.done /\ ~st.stuck
    THEN ClassifyLoop(ranges, ClassifyIter(ranges, st)) ELSE st

\* the tree walk started as if a literal had been matched already
ClassifyWalkPastFirstLiteral(ranges) ==
    ClassifyLoop(ranges,
        [currentNodes |-> <<RootId>>, tokenIndex |-> 0, isFirstLiteral |-> FALSE,
         afterRun |-> FALSE, tokens |-> <<>>, done |-> FALSE, stuck |-> FALSE])

\* the tree walk of getCommandSemanticTokens: the loop state it ends in
ClassifyWalk(ranges) ==
    ClassifyLoop(ranges,
        [currentNodes |-> <<RootId>>, tokenIndex |-> 0, isFirstLiteral |-> TRUE,
         afterRun |-> FALSE, tokens |-> <<>>, done |-> FALSE, stuck |-> FALSE])

\* one token of getFallbackSemanticTokens, i its 0-based index
FallbackToken(token, i) ==
    LET slash == StartsWith(token.value, <<"/">>)
        tokenValue == IF slash THEN Tail(token.value) ELSE token.value
        whole(tokenType) ==
            [ScanStart EXCEPT !.tokens = << Span(token.start, token.length, tokenType) >>]
        Location(parts) ==
            [ScanStart EXCEPT !.tokens =
                << Span(token.start, Len(parts[1]), "method"),
                   Span(token.start + Len(parts[1]), 1, "operator"),
                   Span(token.start + Len(parts[1]) + 1, Len(parts[2]), "method") >>]
    IN IF i = 0
         THEN [ScanStart EXCEPT !.tokens =
                  << Span(token.start + (IF slash THEN 1 ELSE 0), Len(tokenValue), "keyword") >>]
       ELSE IF IsSelectorToken(tokenValue) THEN tokenizeSelector(tokenValue, token.start)
       ELSE IF IsPlainResourceLocation(tokenValue)
         THEN Location(SplitChar(tokenValue, ":"))
       ELSE IF IsNumberToken(tokenValue) THEN whole("number")
       ELSE IF tokenValue \in {<<"r", "u", "n">>, <<"a", "s">>, <<"a", "t">>, <<"i", "f">>, <<"u", "n", "l", "e", "s", "s">>, <<"s", "t", "o", "r", "e">>,
                               <<"p", "o", "s", "i", "t", "i", "o", "n", "e", "d">>, <<"r", "o", "t", "a", "t", "e", "d">>, <<"a", "n", "c", "h", "o", "r", "e", "d">>, <<"o", "b", "j", "e", "c", "t", "i", "v", "e", "s">>,
                               <<"p", "l", "a", "y", "e", "r", "s">>, <<"a", "d", "d">>, <<"s", "e", "t">>, <<"r", "e", "m", "o", "v", "e">>, <<"g", "e", "t">>,
                               <<"m", "o", "d", "i", "f", "y">>, <<"m", "e", "r", "g", "e">>, <<"o", "n">>, <<"p", "a", "s", "s", "e", "n", "g", "e", "r", "s">>}
         THEN whole("function")
       ELSE whole("variable")

RECURSIVE FallbackLoop(_, _, _)
\* the for loop of getFallbackSemanticTokens
FallbackLoop(ranges, i, st) ==
    IF i >= Len(ranges) \/ st.stuck THEN st
    ELSE LET Pushed(sub) ==
                 FallbackLoop(ranges, i + 1,
                     [st EXCEPT !.tokens = st.tokens \o sub.tokens, !.stuck = sub.stuck])
         IN Pushed(FallbackToken(ranges[i + 1], i))

\* getFallbackSemanticTokens(command), as a scanner state
getFallbackSemanticTokens(cmd) == FallbackLoop(tokenizeWithRanges(cmd), 0, ScanStart)

\* commandTokensCache.has(command) / .get(command); the cache is the list of
\* its entries in insertion order
CacheHas(cache, cmd) == \E k \in 1..Len(cache) : cache[k].key = cmd
\* a lookup that hands back the oldest entry whatever the key
CacheGetOldest(cache, cmd) == cache[1].value

CacheGet(cache, cmd) == cache[CHOOSE k \in 1..Len(cache) : cache[k].key = cmd].value

\* an insertion that never makes room
CachePutUnbounded(cache, cmd, tokens) == Append(cache, [key |-> cmd, value |-> tokens])

\* an insertion that makes room by dropping the newest entry
CachePutDropNewest(cache, cmd, tokens) ==
    Append(IF Len(cache) >= MAX_CACHE_SIZE THEN SubSeq(cache, 1, Len(cache) - 1) ELSE cache,
           [key |-> cmd, value |-> tokens])

\* the tail of getCommandSemanticTokens: evict the oldest entry of a full
\* cache, then store
CachePut(cache, cmd, tokens) ==
    Append(IF Len(cache) >= MAX_CACHE_SIZE THEN Tail(cache) ELSE cache,
           [key |-> cmd, value |-> tokens])

\* getCommandSemanticTokens(command): whether the call returns, the tokens it
\* returns and the cache it leaves
getCommandSemanticTokens(cmd) ==
    LET Fallback(fallback) ==
            [returns |-> ~fallback.stuck, tokens |-> fallback.tokens,
             cache |-> commandTokensCache]
        Walked(walk) ==
            IF walk.stuck
            THEN [returns |-> FALSE, tokens |-> <<>>, cache |-> commandTokensCache]
            ELSE [returns |-> TRUE, tokens |-> walk.tokens,
                  cache |-> CachePut(commandTokensCache, cmd, walk.tokens)]
    IN IF CacheHas(commandTokensCache, cmd)
         THEN [returns |-> TRUE, tokens |-> CacheGet(commandTokensCache, cmd),
               cache |-> commandTokensCache]
       ELSE IF ~initialized \/ commandTree = NoTree
         THEN Fallback(getFallbackSemanticTokens(cmd))
       ELSE Walked(ClassifyWalk(tokenizeWithRanges(cmd)))

\* getNbtTokens(text), as a scanner state
getNbtTokens(text) == tokenizeNbt(text, 0)

-----------------------------------------------------------------------------
(* Grammars, registries and commands the model draws its inputs from *)

Root(children) == Node("root", children, FALSE, "", "", NoRedirect)
Literal(children, executable, redirect) ==
    Node("literal", children, executable, "", "", redirect)
Argument(parser, children, executable, redirect) ==
    Node("argument", children, executable, parser, "", redirect)

\* A command tree with the shapes the walkers distinguish: a literal beside
\* two sibling arguments (tp), an argument that redirects (ex as <targets>),
\* the `run` literal, an argument chain under `tag`, and a literal alias
\* that redirects (tl).  p1, p2, p3 are the parsers of the arguments, r and
\* rl the redirect fields.
Grammar(p1, p2, p3, r, rl) ==
    << Root(<< Child(<<"t", "p">>, 2), Child(<<"e", "x">>, 6), Child(<<"t", "a", "g">>, 10), Child(<<"t", "l">>, 13) >>),
       Literal(<< Child(<<"a", "t">>, 3), Child(<<"d", "e", "s", "t">>, 4), Child(<<"l", "o", "c">>, 5) >>,
               FALSE, NoRedirect),
       Literal(<<>>, TRUE, NoRedirect),
       Argument(p1, <<>>, TRUE, NoRedirect),
       Argument(p2, <<>>, TRUE, NoRedirect),
       Literal(<< Child(<<"a", "s">>, 7), Child(<<"r", "u", "n">>, 9) >>, FALSE, NoRedirect),
       Literal(<< Child(<<"t", "a", "r", "g", "e", "t", "s">>, 8) >>, FALSE, NoRedirect),
       Argument("minecraft:entity", <<>>, FALSE, r),
       Literal(<<>>, FALSE, NoRedirect),
       Literal(<< Child(<<"t", "a", "r", "g", "e", "t", "s">>, 11) >>, FALSE, NoRedirect),
       Argument("minecraft:entity", << Child(<<"p", "o", "s">>, 12) >>, FALSE, NoRedirect),
       Argument(p3, <<>>, TRUE, NoRedirect),
       Literal(<<>>, FALSE, rl) >>

\* redirect fields: to `ex`, to `tp`, to a name that is no child of the root,
\* and the empty path
ToEx == << << <<"e", "x">> >> >>
ToTp == << << <<"t", "p">> >> >>
ToMissing == << << <<"z", "z">> >> >>
ToEmptyPath == << <<>> >>

Grammars ==
    { Grammar("brigadier:integer", "brigadier:string", "brigadier:string", ToEx, ToTp),
      Grammar("minecraft:vec3", "minecraft:entity", "minecraft:vec3", ToEx, ToTp),
      Grammar("brigadier:string", "minecraft:vec2", "minecraft:vec2", ToEx, ToMissing),
      Grammar("minecraft:item_stack", "brigadier:bool", "minecraft:vec3", ToMissing, ToTp),
      Grammar("minecraft:entity", "minecraft:vec3", "minecraft:block_pos", ToEmptyPath,
              ToEmptyPath) }

ModelRegistries ==
    [k \in {"item", "entity_type"} |->
        IF k = "item" THEN << MinecraftPrefix \o <<"a", "d", "d">>, <<"t", "p">> >>
        ELSE << MinecraftPrefix \o <<"a", "t">> >>]

\* the tokens commands are built from
Words == { <<"t", "p">>, <<"a", "t">>, <<"e", "x">>, <<"a", "s">>, <<"r", "u", "n">>, <<"t", "a", "g">>, <<"t", "l">>, <<"a", "d", "d">>, <<"1">> }

\* the first token of a command: a command of the grammar, or a word that is none
FirstWords == { <<"t", "p">>, <<"e", "x">>, <<"t", "a", "g">>, <<"t", "l">>, <<"1">> }

\* the token sequences of the commands: none, the one-token command valueOf
\* (a name every JavaScript object inherits), and a first word followed by
\* up to MaxTokens - 1 words
WordSeqs ==
    { <<>>, << <<"v", "a", "l", "u", "e", "O", "f">> >> } \cup
    UNION { {<<w>> \o rest : w \in FirstWords, rest \in [1..n -> Words]} : n \in 0..(MaxTokens - 1) }

Spaces(n) == [k \in 1..n |-> " "]

RECURSIVE JoinWords(_, _)
JoinWords(ws, gap) ==
    IF Len(ws) = 0 THEN <<>>
    ELSE IF Len(ws) = 1 THEN ws[1]
    ELSE ws[1] \o Spaces(gap) \o JoinWords(Tail(ws), gap)

\* how a command is laid out: a leading "/", leading spaces, the spaces
\* between two tokens, trailing spaces
Layouts ==
    { [slash |-> FALSE, lead |-> 0, gap |-> 1, trail |-> 0],
      [slash |-> TRUE, lead |-> 0, gap |-> 1, trail |-> 0],
      [slash |-> FALSE, lead |-> 1, gap |-> 2, trail |-> 0],
      [slash |-> FALSE, lead |-> 0, gap |-> 1, trail |-> 1] }

CommandOf(ws, lay) ==
    (IF lay.slash THEN <<"/">> ELSE <<>>) \o Spaces(lay.lead)
        \o JoinWords(ws, lay.gap) \o Spaces(lay.trail)

Commands == {CommandOf(ws, lay) : ws \in WordSeqs, lay \in Layouts}

TagLists == { <<>>, << <<"t">>, <<"t">> >>, << <<"0">>, <<"a", "b">> >> }

-----------------------------------------------------------------------------
(* The walkers applied to one command under one loaded grammar *)

WalkInit ==
    /\ pending = {}
    /\ initialized = TRUE
    /\ commandTree \in Grammars
    /\ registries = ModelRegistries
    /\ commandTokensCache = <<>>
    /\ command \in Commands
    /\ op = "idle"
    /\ arg = <<>>
    /\ out = <<>>

\* validateCommand emptying the span cache as it goes
ValidateCommandDroppingCache ==
    /\ op = "idle"
    /\ \E ignoreIncomplete \in BOOLEAN :
        /\ arg' = [ignoreIncomplete |-> ignoreIncomplete]
        /\ out' = validateCommand(command, [ignoreIncomplete |-> ignoreIncomplete])
    /\ op' = "validateCommand"
    /\ commandTokensCache' = <<>>
    /\ UNCHANGED <<pending, initialized, commandTree, registries, command>>

ValidateCommand ==
    /\ op = "idle"
    /\ \E ignoreIncomplete \in BOOLEAN :
        /\ arg' = [ignoreIncomplete |-> ignoreIncomplete]
        /\ out' = validateCommand(command, [ignoreIncomplete |-> ignoreIncomplete])
    /\ op' = "validateCommand"
    /\ UNCHANGED <<pending, initialized, commandTree, registries, commandTokensCache, command>>

\* the tokens of the command, its leading "/" dropped
TokensOf(cmd) == tokenize(Trim(IF StartsWith(cmd, <<"/">>) THEN Tail(cmd) ELSE cmd))

\* traverse from the root over the tokens of the command
Traverse ==
    /\ op = "idle"
    /\ arg' = [args |-> TokensOf(command)]
    /\ out' = traverse(RootId, TokensOf(command))
    /\ op' = "traverse"
    /\ UNCHANGED <<pending, initialized, commandTree, registries, commandTokensCache, command>>

GetCommandCompletions ==
    /\ op = "idle"
    /\ \E cursorOffset \in {Len(command)}, availableTags \in TagLists :
        /\ arg' = [cursorOffset |-> cursorOffset, availableTags |-> availableTags]
        /\ out' = getCommandCompletions(command, cursorOffset, availableTags)
    /\ op' = "getCommandCompletions"
    /\ UNCHANGED <<pending, initialized, commandTree, registries, commandTokensCache, command>>

GetCommandSemanticTokens ==
    /\ op = "idle"
    /\ arg' = <<>>
    /\ \E result \in {getCommandSemanticTokens(command)} :
        /\ out' = [returns |-> result.returns, tokens |-> result.tokens]
        /\ commandTokensCache' = result.cache
    /\ op' = "getCommandSemanticTokens"
    /\ UNCHANGED <<pending, initialized, commandTree, registries, command>>

\* the calls whose result says whether the call returns at all
ScanOps == {"getCommandSemanticTokens", "getFallbackSemanticTokens", "getNbtTokens",
            "tokenizeSelector", "tokenizeNbtPath", "tokenizeBlockState"}

\* the caller takes the result; the next call may start.  A call that never
\* returns leaves no next call.
Return ==
    /\ op # "idle"
    /\ op \in ScanOps => out.returns
    /\ op' = "idle"
    /\ arg' = <<>>
    /\ out' = <<>>
    /\ UNCHANGED <<pending, initialized, commandTree, registries, commandTokensCache, command>>

WalkNext ==
    \/ ValidateCommand
    \/ Traverse
    \/ GetCommandCompletions
    \/ GetCommandSemanticTokens
    \/ Return

WalkSpec == WalkInit /\ [][WalkNext]_vars

-----------------------------------------------------------------------------
(* The tokenizers applied to one text *)

\* root -> e <entity> | n <nbt_compound_tag> | p <nbt_path> | b <block_state>
ScanGrammar ==
    << Root(<< Child(<<"e">>, 2), Child(<<"n">>, 4), Child(<<"p">>, 6), Child(<<"b">>, 8) >>),
       Literal(<< Child(<<"t", "a", "r", "g", "e", "t", "s">>, 3) >>, FALSE, NoRedirect),
       Argument("minecraft:entity", <<>>, TRUE, NoRedirect),
       Literal(<< Child(<<"n", "b", "t">>, 5) >>, FALSE, NoRedirect),
       Argument("minecraft:nbt_compound_tag", <<>>, TRUE, NoRedirect),
       Literal(<< Child(<<"p", "a", "t", "h">>, 7) >>, FALSE, NoRedirect),
       Argument("minecraft:nbt_path", <<>>, TRUE, NoRedirect),
       Literal(<< Child(<<"b", "l", "o", "c", "k">>, 9) >>, FALSE, NoRedirect),
       Argument("minecraft:block_state", <<>>, TRUE, NoRedirect) >>

ScanAlphabet == {"{", "}", "[", "]", "\"", "\\", ",", "a"}

ScanBodies == UNION {[1..n -> ScanAlphabet] : n \in 0..MaxTextLen}

ScanPrefixes == { <<>>, <<"@", "e", "[">>, <<"e", " ">>, <<"n", " ">>, <<"p", " ">>,
                  <<"b", " ", "a">> }

ScanTexts == {pre \o body : pre \in ScanPrefixes, body \in ScanBodies}

\* what a scan hands back: whether it returns, and the spans
Scanned(st) == [returns |-> ~st.stuck, tokens |-> st.tokens]

ScanInit ==
    /\ pending = {}
    /\ initialized \in BOOLEAN
    /\ commandTree = ScanGrammar
    /\ registries = ModelRegistries
    /\ commandTokensCache = <<>>
    /\ command \in ScanTexts
    /\ op = "idle"
    /\ arg = <<>>
    /\ out = <<>>

GetNbtTokens ==
    /\ op = "idle"
    /\ arg' = <<>>
    /\ out' = Scanned(getNbtTokens(command))
    /\ op' = "getNbtTokens"
    /\ UNCHANGED <<pending, initialized, commandTree, registries, commandTokensCache, command>>

GetFallbackSemanticTokens ==
    /\ op = "idle"
    /\ arg' = <<>>
    /\ out' = Scanned(getFallbackSemanticTokens(command))
    /\ op' = "getFallbackSemanticTokens"
    /\ UNCHANGED <<pending, initialized, commandTree, registries, commandTokensCache, command>>

TokenizeSelector ==
    /\ op = "idle"
    /\ arg' = [baseOffset |-> 0]
    /\ out' = Scanned(tokenizeSelector(command, 0))
    /\ op' = "tokenizeSelector"
    /\ UNCHANGED <<pending, initialized, commandTree, registries, commandTokensCache, command>>

TokenizeNbtPath ==
    /\ op = "idle"
    /\ arg' = [baseOffset |-> 0]
    /\ out' = Scanned(tokenizeNbtPath(command, 0))
    /\ op' = "tokenizeNbtPath"
    /\ UNCHANGED <<pending, initialized, commandTree, registries, commandTokensCache, command>>

\* tokenizeBlockState on the text itself, or through tokenizeIdSuffix
TokenizeBlockState ==
    /\ op = "idle"
    /\ \E viaIdSuffix \in BOOLEAN :
        /\ arg' = [baseOffset |-> 0, viaIdSuffix |-> viaIdSuffix]
        /\ out' = Scanned(IF viaIdSuffix THEN tokenizeIdSuffix(command, 0)
                          ELSE tokenizeBlockState(command, 0))
    /\ op' = "tokenizeBlockState"
    /\ UNCHANGED <<pending, initialized, commandTree, registries, commandTokensCache, command>>

ScanNext ==
    \/ GetNbtTokens
    \/ GetFallbackSemanticTokens
    \/ GetCommandSemanticTokens
    \/ TokenizeSelector
    \/ TokenizeNbtPath
    \/ TokenizeBlockState
    \/ Return

ScanSpec == ScanInit /\ [][ScanNext]_vars

-----------------------------------------------------------------------------
(* Properties of the validator *)

\* a token the parser of an argument node takes as a valid value
ValidFor(parser, token) ==
    CASE parser = "brigadier:integer" -> IsIntegerText(token)
      [] parser \in {"brigadier:float", "brigadier:double"} -> IsDecimalText(token)
      [] parser = "brigadier:bool" -> token \in {<<"t", "r", "u", "e">>, <<"f", "a", "l", "s", "e">>}
      [] parser = "brigadier:string" -> IsNameText(token)
      [] parser = "minecraft:entity" -> IsNameText(token)
      [] isCoordinateParser(parser) -> IsDecimalText(token)
      [] parser = "minecraft:item_stack" ->
            HasRegistry("item") /\ SeqIncludes(registries["item"], MinecraftPrefix \o token)
      [] OTHER -> FALSE

RECURSIVE AcceptsFrom(_, _, _)
\* the grammar accepts the tokens ws[i..]: a path from node id that takes
\* each literal token by name and each argument by as many valid tokens as its
\* parser consumes, follows redirects that resolve, and ends on an executable
\* node.  An argument token never carries the name of a sibling literal.
AcceptsFrom(id, ws, i) ==
    \E k \in 1..Len(commandTree[id].children) :
        LET key == commandTree[id].children[k].key
            c == commandTree[id].children[k].id
            n == commandTree[c]
            j == i + (IF n.type = "argument" THEN getParserTokenCount(n.parser) ELSE 1)
        IN /\ j - 1 <= Len(ws)
           /\ \/ n.type = "literal" /\ key = ws[i]
              \/ /\ n.type = "argument"
                 /\ \A t \in i..(j - 1) :
                       ValidFor(n.parser, ws[t]) /\ ~HasLiteralChild(id, ws[t])
           /\ IF j > Len(ws) THEN n.executable
              ELSE /\ n.redirect = NoRedirect \/ resolveRedirect(n.redirect[1]) # 0
                   /\ AcceptsFrom(TargetOf(c), ws, j)

\* the command is its tokens joined by single spaces
SingleSpaced(cmd) == cmd = JoinWords(TokensOf(cmd), 1)

\* C1: for every grammar and every token sequence the grammar accepts,
\* validateCommand on the tokens joined by single spaces returns no entry of
\* severity "error"
AcceptedCommandHasNoError ==
    (/\ op = "validateCommand"
     /\ SingleSpaced(command)
     /\ Len(TokensOf(command)) > 0
     /\ AcceptsFrom(RootId, TokensOf(command), 1))
    => \A k \in 1..Len(out) : out[k].severity # "error"

\* [start, start + length) is a token of the command as passed in: a maximal
\* run of characters other than the space, after the leading "/" if any
IsTokenSpan(cmd, start, length) ==
    LET first == IF StartsWith(cmd, <<"/">>) THEN 1 ELSE 0
    IN /\ length > 0 /\ start >= first /\ start + length <= Len(cmd)
       /\ \A k \in (start + 1)..(start + length) : cmd[k] # " "
       /\ start = first \/ cmd[start] = " "
       /\ start + length = Len(cmd) \/ cmd[start + length + 1] = " "

\* C2: every per-token entry of validateCommand (every entry but the
\* whole-command "Incomplete command" one) starts at the first character of a
\* token of the command as passed in and has that token's length, and the
\* token it names is the text at that place
ErrorSpansAreTokenSpans ==
    op = "validateCommand" =>
        \A k \in 1..Len(out) :
            out[k].message.kind # "Incomplete command" =>
                /\ IsTokenSpan(command, out[k].start, out[k].length)
                /\ "token" \in DOMAIN out[k].message =>
                       Substring(command, out[k].start, out[k].start + out[k].length)
                           = out[k].message.token

-----------------------------------------------------------------------------
(* Properties of traverse *)

Front(s) == SubSeq(s, 1, Len(s) - 1)
Last(s) == s[Len(s)]

\* the node set traverse holds when it comes to the last of args, <<>> when
\* it never takes the last of args as a token of its own (it stopped before,
\* or the token is a later part of a multi-token argument)
NodesBeforeLast(args) ==
    IF Len(args) = 0 \/ traverse(RootId, Front(args)).midCoord # 0 THEN <<>>
    ELSE traverse(RootId, Front(args)).nodes

\* the nodes reached from the nodes of a set through literal children named token
LiteralTargets(nodes, token) ==
    { TargetOf(ChildId(commandTree[nodes[k]], token)) :
          k \in {j \in 1..Len(nodes) : HasLiteralChild(nodes[j], token)} }

\* C6: in traverse, when a token is the name of a literal child of a current
\* node, the next node set holds only nodes reached through matching
\* literals
LiteralMatchExcludesArguments ==
    (/\ op = "traverse"
     /\ Len(arg.args) > 0
     /\ LiteralTargets(NodesBeforeLast(arg.args), Last(arg.args)) # {})
    => SeqRange(out.nodes) \subseteq
           LiteralTargets(NodesBeforeLast(arg.args), Last(arg.args))

\* the argument children of the nodes of a set
ArgumentChildren(nodes) ==
    UNION { { commandTree[nodes[k]].children[c].id :
                  c \in { d \in 1..Len(commandTree[nodes[k]].children) :
                            commandTree[commandTree[nodes[k]].children[d].id].type
                                = "argument" } } :
            k \in 1..Len(nodes) }

\* the largest number of tokens an argument child of the nodes takes, 0 when
\* there is no argument child
RequiredTokens(nodes) ==
    IF ArgumentChildren(nodes) = {} THEN 0
    ELSE CHOOSE n \in 1..3 :
            /\ \E c \in ArgumentChildren(nodes) : getParserTokenCount(commandTree[c].parser) = n
            /\ \A c \in ArgumentChildren(nodes) : getParserTokenCount(commandTree[c].parser) <= n

\* where the last step of traverse over args starts: the largest j below
\* Len(args) such that traverse over the first j tokens ends on a node set
\* with nothing pending
LastStepStart(args) ==
    CHOOSE j \in 0..(Len(args) - 1) :
        /\ traverse(RootId, SubSeq(args, 1, j)).midCoord = 0
        /\ traverse(RootId, SubSeq(args, 1, j)).nodes # <<>>
        /\ \A h \in (j + 1)..(Len(args) - 1) :
              \/ traverse(RootId, SubSeq(args, 1, h)).midCoord # 0
              \/ traverse(RootId, SubSeq(args, 1, h)).nodes = <<>>

-----------------------------------------------------------------------------
(* Properties of redirects and of the three walkers together *)

\* the child carries a redirect that does not resolve
Unresolved(c) ==
    /\ commandTree[c].redirect # NoRedirect
    /\ resolveRedirect(commandTree[c].redirect[1]) = 0

\* the children of the nodes that can take the token: literals of that name
\* and arguments
MatchingChildren(nodes, token) ==
    ArgumentChildren(nodes) \cup
    { ChildId(commandTree[nodes[k]], token) :
          k \in {j \in 1..Len(nodes) : HasLiteralChild(nodes[j], token)} }

\* the one child validateCommand and getCommandSemanticTokens match a token
\* against: the literal of that name under the first node that has one, else
\* the first argument child of the first node that has one, else 0
FirstMatch(nodes, token) ==
    LET litAt == FirstIndex(nodes, LAMBDA id : HasLiteralChild(id, token))
        argAt == FirstIndex(nodes, LAMBDA id : HasArgumentChild(id))
    IN IF litAt # 0 THEN ChildId(commandTree[nodes[litAt]], token)
       ELSE IF argAt # 0 THEN FirstArgumentChild(nodes[argAt]).id
       ELSE 0

\* validateCommand walks the tokens (the command is known) and takes the
\* last of them as a token of its own
ValidateTakesLast(args) ==
    /\ Len(args) > 0
    /\ HasChild(commandTree[RootId], args[1])
    /\ ValidateWalk(Front(args), 0).tokenIndex = Len(args) - 1

RECURSIVE ClassifyUpTo(_, _, _)
\* the loop state in which the walk of getCommandSemanticTokens over ranges
\* reaches token k, or the first one past it
ClassifyUpTo(ranges, st, k) ==
    IF st.tokenIndex < k /\ ~st.done /\ ~st.stuck
    THEN ClassifyUpTo(ranges, ClassifyIter(ranges, st), k) ELSE st

\* the loop state of that walk when it comes to the last of the ranges
ClassifyBeforeLast(ranges) == ClassifyUpTo(ranges, ClassifyWalk(<<>>), Len(ranges) - 1)

\* getCommandSemanticTokens takes the last of the ranges as a token of its
\* own: it is not swallowed by a coordinate argument that began before it
ClassifyTakesLast(ranges) ==
    /\ Len(ranges) > 0
    /\ ClassifyBeforeLast(ranges).tokenIndex = Len(ranges) - 1
    /\ ~ClassifyBeforeLast(ranges).done
    /\ ~ClassifyBeforeLast(ranges).stuck

\* the value of a range without its leading "/"
TokenValue(range) ==
    IF StartsWith(range.value, <<"/">>) THEN Tail(range.value) ELSE range.value

WalkersAgree ==
    (/\ op = "traverse"
     /\ Len(arg.args) > 0
     /\ out.nodes # <<>>
     /\ out.midCoord = 0)
    => /\ SeqRange(ValidateWalk(arg.args, 0).currentNodes) = SeqRange(out.nodes)
       /\ ValidateWalk(arg.args, 0).tokenIndex = Len(arg.args)
       /\ SeqRange(ClassifyWalk(tokenizeWithRanges(command)).currentNodes)
              = SeqRange(out.nodes)
       /\ ClassifyWalk(tokenizeWithRanges(command)).tokenIndex = Len(arg.args)
       /\ ~ClassifyWalk(tokenizeWithRanges(command)).done

-----------------------------------------------------------------------------
(* Properties of completion *)

\* C10: when traverse over the completed tokens reports tokens pending and the
\* cursor is not inside a selector bracket, every item getCommandCompletions
\* returns is labelled "~", "^" or "0"
PendingCoordinateOffersOnlyCoordinates ==
    (/\ op = "getCommandCompletions"
     /\ SelectorMatchIndex(TextBeforeCursor(command, arg.cursorOffset)) = -1
     /\ traverse(RootId,
                 CompletedArgs(TextBeforeCursor(command, arg.cursorOffset))).midCoord # 0)
    => \A k \in 1..Len(out) : out[k].label \in {<<"~">>, <<"^">>, <<"0">>}

-----------------------------------------------------------------------------
(* Properties of the micro-tokenizers *)

\* C3: every span returned by getCommandSemanticTokens,
\* getFallbackSemanticTokens and getNbtTokens lies inside the input text:
\* start >= 0 and start + length <= length of the text
SpansWithinText ==
    (/\ op \in {"getCommandSemanticTokens", "getFallbackSemanticTokens", "getNbtTokens"}
     /\ out.returns)
    => \A k \in 1..Len(out.tokens) :
          /\ out.tokens[k].start >= 0
          /\ out.tokens[k].start + out.tokens[k].length <= Len(command)

\* C4: tokenizeNbtPath and tokenizeBlockState (also through tokenizeIdSuffix)
\* return on every text: every iteration of their scan loops ends with the
\* position strictly advanced
PathAndBlockStateScansReturn ==
    op \in {"tokenizeNbtPath", "tokenizeBlockState"} => out.returns

\* C5: tokenizeNbt and tokenizeSelector return on every text: every iteration
\* of the compound, list and selector loops ends with the position strictly
\* greater than at its start
NbtAndSelectorScansReturn ==
    op \in {"getNbtTokens", "tokenizeSelector"} => out.returns

\* C5 (case reached): a text that opens a compound, a list or a selector
\* bracket and never closes it was scanned to its end
UnterminatedScanReturned ==
    /\ op \in {"getNbtTokens", "tokenizeSelector"}
    /\ out.returns
    /\ \/ /\ op = "getNbtTokens"
          /\ StartsWith(command, <<"{">>)
          /\ ~IncludesChar(command, "}")
          /\ Len(command) > 1
       \/ /\ op = "getNbtTokens"
          /\ StartsWith(command, <<"[">>)
          /\ ~IncludesChar(command, "]")
          /\ Len(command) > 1
       \/ /\ op = "tokenizeSelector"
          /\ StartsWith(command, <<"@", "e", "[">>)
          /\ ~IncludesChar(command, "]")
          /\ Len(command) > 3

-----------------------------------------------------------------------------
(* Properties of the structural errors of validateCommand *)

\* the offset validateCommand starts counting from
StartOffset(cmd) == IF StartsWith(cmd, <<"/">>) THEN 1 ELSE 0

\* the state in which the walk of validateCommand over the command ends
WalkEnd(cmd) == ValidateWalk(TokensOf(cmd), StartOffset(cmd))

\* validateCommand walks the command: there is a grammar, and the first
\* token is the name of a child of the root
Walks(cmd) ==
    /\ initialized /\ commandTree # NoTree
    /\ Len(TokensOf(cmd)) > 0
    /\ HasChild(commandTree[RootId], TokensOf(cmd)[1])

\* the entries of kind k among errs, in order
RECURSIVE OfKind(_, _)
OfKind(errs, k) ==
    IF Len(errs) = 0 THEN <<>>
    ELSE (IF Head(errs).message.kind = k THEN <<Head(errs)>> ELSE <<>>) \o OfKind(Tail(errs), k)

\* the entries not of kind k among errs, in order
RECURSIVE NotOfKind(_, _)
NotOfKind(errs, k) ==
    IF Len(errs) = 0 THEN <<>>
    ELSE (IF Head(errs).message.kind # k THEN <<Head(errs)>> ELSE <<>>) \o NotOfKind(Tail(errs), k)

\* the walk ended without having passed through an executable node since the
\* last reset, on a node set that is not the root
EndsIncomplete(cmd) ==
    /\ ~WalkEnd(cmd).hasExecutable
    /\ \A k \in 1..Len(WalkEnd(cmd).currentNodes) :
          ~commandTree[WalkEnd(cmd).currentNodes[k]].executable
    /\ WalkEnd(cmd).currentNodes[1] # RootId

\* C11: a walked command gets exactly one "Incomplete command" entry, with
\* start 0 and the length of the whole input, if and only if ignoreIncomplete
\* is not set and the walk ends incomplete; and the result with
\* ignoreIncomplete set is the result without that entry
IncompleteErrorIffOwed ==
    (op = "validateCommand" /\ Walks(command)) =>
        /\ OfKind(out, "Incomplete command") # <<>>
              <=> (~arg.ignoreIncomplete /\ EndsIncomplete(command))
        /\ Len(OfKind(out, "Incomplete command")) <= 1
        /\ \A k \in 1..Len(out) :
              out[k].message.kind = "Incomplete command" =>
                  out[k].start = 0 /\ out[k].length = Len(command)
        /\ NotOfKind(out, "Incomplete command")
              = validateCommand(command, [ignoreIncomplete |-> TRUE])

\* C12: when the first token is not the name of a literal child of the root,
\* validateCommand returns one entry and no more, an "Unknown command" error
\* of the length of that token; when it is, no "Unknown command" entry is
\* returned
UnknownCommandIffNoLiteral ==
    (/\ op = "validateCommand"
     /\ initialized /\ commandTree # NoTree
     /\ Len(TokensOf(command)) > 0)
    => IF HasLiteralChild(RootId, TokensOf(command)[1])
       THEN OfKind(out, "Unknown command") = <<>>
       ELSE /\ Len(out) = 1
            /\ out[1].message.kind = "Unknown command"
            /\ out[1].severity = "error"
            /\ out[1].length = Len(TokensOf(command)[1])

\* the non-first tokens the walk of validateCommand comes to and matches
\* against no child of its current nodes, each with those nodes, in order
RECURSIVE UnmatchedTokens(_, _)
UnmatchedTokens(tokens, st) ==
    IF st.tokenIndex >= Len(tokens) THEN <<>>
    ELSE (IF st.tokenIndex > 0 /\ FirstMatch(st.currentNodes, tokens[st.tokenIndex + 1]) = 0
          THEN << [token |-> tokens[st.tokenIndex + 1], nodes |-> st.currentNodes] >>
          ELSE <<>>)
         \o UnmatchedTokens(tokens, ValidateIter(tokens, st))

\* C13: the "Unexpected argument" entries of validateCommand are, in order,
\* one for each unmatched non-first token: an error that names the token, has
\* its length, lists the first five expected continuations of the current
\* nodes and has the ellipsis exactly when there are more than five -- also
\* when the current nodes have no children
UnexpectedArgumentPerUnmatchedToken ==
    (op = "validateCommand" /\ Walks(command)) =>
        LET owed == UnmatchedTokens(TokensOf(command),
                                    ValidateWalk(<<>>, StartOffset(command)))
            got == OfKind(out, "Unexpected argument")
        IN /\ Len(got) = Len(owed)
           /\ \A j \in 1..Len(got) :
                 LET expectedTokens == getExpectedTokens(owed[j].nodes)
                 IN /\ got[j].severity = "error"
                    /\ got[j].message.token = owed[j].token
                    /\ got[j].length = Len(owed[j].token)
                    /\ got[j].message.expected
                          = SubSeq(expectedTokens, 1, Min(5, Len(expectedTokens)))
                    /\ got[j].message.ellipsis <=> Len(expectedTokens) > 5

-----------------------------------------------------------------------------
(* The two command tokenizers applied to one text *)

\* the longest text given to the tokenizers
MaxLineLen == 5

\* texts over the characters the tokenizers tell apart: the space, the
\* quote, the backslash, an opening and a closing bracket, and a letter
TokTexts == UNION {[1..n -> {" ", "\"", "\\", "{", "]", "a"}] : n \in 0..MaxLineLen}

TokInit ==
    /\ pending = {}
    /\ initialized = TRUE
    /\ commandTree = ScanGrammar
    /\ registries = ModelRegistries
    /\ commandTokensCache = <<>>
    /\ command \in TokTexts
    /\ op = "idle"
    /\ arg = <<>>
    /\ out = <<>>

Tokenize ==
    /\ op = "idle"
    /\ arg' = <<>>
    /\ out' = tokenize(command)
    /\ op' = "tokenize"
    /\ UNCHANGED <<pending, initialized, commandTree, registries, commandTokensCache, command>>

TokenizeWithRanges ==
    /\ op = "idle"
    /\ arg' = <<>>
    /\ out' = tokenizeWithRanges(command)
    /\ op' = "tokenizeWithRanges"
    /\ UNCHANGED <<pending, initialized, commandTree, registries, commandTokensCache, command>>

TokNext ==
    \/ Tokenize
    \/ TokenizeWithRanges
    \/ Return

TokSpec == TokInit /\ [][TokNext]_vars

-----------------------------------------------------------------------------
(* Properties of the command tokenizers *)

\* where the character at 0-based index i stands: inside a double-quoted
\* region or not, and under how many brackets opened outside such a region
\* and not yet closed.  With escapes, a quote right after a backslash inside a
\* quoted region does not close it; with clamp, a closing bracket that closes
\* nothing leaves the depth at 0.
RECURSIVE RegionAt(_, _, _, _)
RegionAt(text, i, escapes, clamp) ==
    IF i = 0 THEN [inString |-> FALSE, depth |-> 0]
    ELSE LET before == RegionAt(text, i - 1, escapes, clamp)
             c == text[i]
             escaped == escapes /\ before.inString /\ i >= 2 /\ text[i - 1] = "\\"
         IN IF c = "\"" /\ ~escaped THEN [before EXCEPT !.inString = ~before.inString]
            ELSE IF before.inString THEN before
            ELSE IF c \in {"{", "["} THEN [before EXCEPT !.depth = before.depth + 1]
            ELSE IF c \in {"}", "]"}
              THEN [before EXCEPT !.depth = IF clamp THEN Max(0, before.depth - 1)
                                            ELSE before.depth - 1]
            ELSE before

\* the character at 0-based index i is a space that separates two tokens
Separating(text, i, escapes, clamp) ==
    /\ text[i + 1] = " "
    /\ ~RegionAt(text, i, escapes, clamp).inString
    /\ RegionAt(text, i, escapes, clamp).depth = 0

\* the text from index i on cut at its separating spaces, current being the
\* piece begun; empty pieces are dropped
RECURSIVE PiecesFrom(_, _, _, _, _)
PiecesFrom(text, i, current, escapes, clamp) ==
    IF i >= Len(text) THEN (IF current # <<>> THEN <<current>> ELSE <<>>)
    ELSE IF Separating(text, i, escapes, clamp)
      THEN (IF current # <<>> THEN <<current>> ELSE <<>>)
           \o PiecesFrom(text, i + 1, <<>>, escapes, clamp)
    ELSE PiecesFrom(text, i + 1, Append(current, text[i + 1]), escapes, clamp)

Pieces(text, escapes, clamp) == PiecesFrom(text, 0, <<>>, escapes, clamp)

RECURSIVE Concat(_)
Concat(ss) == IF Len(ss) = 0 THEN <<>> ELSE Head(ss) \o Concat(Tail(ss))

\* the token texts of a result of tokenizeWithRanges
Values(ranges) == [k \in 1..Len(ranges) |-> ranges[k].value]

\* C14: tokenize never returns an empty token, and its tokens put together
\* are the text without its separating spaces, a space being kept when it
\* stands in a double-quoted region or under a bracket not yet closed.
TokensAreTextWithoutSeparators ==
    op = "tokenize" =>
        /\ \A k \in 1..Len(out) : out[k] # <<>>
        /\ Concat(out) = Concat(Pieces(command, FALSE, TRUE))

\* C15: in tokenize and in tokenizeWithRanges a quote right after a backslash
\* inside a double-quoted region does not close the region, so the text is
\* cut as if the escaped quote were an ordinary character.
EscapedQuoteKeepsRegionOpen ==
    /\ op = "tokenize" => out = Pieces(command, TRUE, FALSE)
    /\ op = "tokenizeWithRanges" => Values(out) = Pieces(command, TRUE, FALSE)

\* C16: tokenize and tokenizeWithRanges cut the text at every space that is
\* outside a double-quoted region and under no unclosed bracket, the depth of
\* brackets never being negative: a closing bracket that closes nothing does
\* not stop the cutting of what follows.
SplitsAtEverySeparatingSpace ==
    /\ op = "tokenize" => out = Pieces(command, FALSE, TRUE)
    /\ op = "tokenizeWithRanges" => Values(out) = Pieces(command, FALSE, TRUE)

\* C17: tokenizeWithRanges returns the token texts of tokenize in the same
\* order, each the part of the text at its start and of its length, and the
\* tokens follow one another in the text without overlap.
RangesAgreeWithTokenize ==
    op = "tokenizeWithRanges" =>
        /\ Values(out) = tokenize(command)
        /\ \A k \in 1..Len(out) :
              /\ out[k].start >= 0
              /\ out[k].start + out[k].length <= Len(command)
              /\ out[k].length = Len(out[k].value)
              /\ out[k].value = SubSeq(command, out[k].start + 1, out[k].start + out[k].length)
        /\ \A k \in 1..(Len(out) - 1) : out[k].start + out[k].length <= out[k + 1].start

\* C17 witness: tokenizeWithRanges has returned two tokens, the first of
\* them holding a space kept by a quote or a bracket.
TwoRangesOneHoldingASpace ==
    /\ op = "tokenizeWithRanges"
    /\ Len(out) = 2
    /\ " " \in {out[1].value[j] : j \in 1..Len(out[1].value)}

-----------------------------------------------------------------------------
(* The token cache over a run of calls with changing texts *)

\* the number of different texts handed to getCommandSemanticTokens
MaxCommands == 103

\* the k-th text: one of the commands e, n, p, b after up to five spaces and
\* before up to five spaces
CacheText(k) ==
    [j \in 1..((k - 1) % 6) |-> " "]
        \o << <<"e", "n", "p", "b">>[((k - 1) \div 36) + 1] >>
        \o [j \in 1..(((k - 1) \div 6) % 6) |-> " "]

\* which text a text is
TextNumber(text) == CHOOSE k \in 1..MaxCommands : CacheText(k) = text

\* the highest text handed over so far
LatestText ==
    LET numbers == {TextNumber(command)}
                     \cup {TextNumber(commandTokensCache[k].key) : k \in 1..Len(commandTokensCache)}
    IN CHOOSE n \in numbers : \A m \in numbers : m <= n

CacheInit ==
    /\ pending = {}
    /\ initialized \in BOOLEAN
    /\ commandTree = ScanGrammar
    /\ registries = ModelRegistries
    /\ commandTokensCache = <<>>
    /\ command = CacheText(1)
    /\ op = "idle"
    /\ arg = <<>>
    /\ out = <<>>

\* the caller turns to another line: a text not seen before (once the tokens
\* of the present line have been asked for), the first text again, or the text
\* of the oldest entry of the cache
NextCommand ==
    /\ op = "idle"
    /\ \/ /\ LatestText < MaxCommands
          /\ initialized => CacheHas(commandTokensCache, command)
          /\ command' = CacheText(LatestText + 1)
       \/ command' = CacheText(1)
       \/ commandTokensCache # <<>> /\ command' = commandTokensCache[1].key
    /\ UNCHANGED <<pending, initialized, commandTree, registries, commandTokensCache, op, arg, out>>

CacheNext ==
    \/ NextCommand
    \/ GetCommandSemanticTokens
    \/ Return

CacheSpec == CacheInit /\ [][CacheNext]_vars

-----------------------------------------------------------------------------
(* Properties of the token cache *)

\* C18: after any run of calls of getCommandSemanticTokens the cache holds at
\* most MAX_CACHE_SIZE entries.
CacheHoldsAtMostMaxEntries == Len(commandTokensCache) <= MAX_CACHE_SIZE

\* C18 witness: the cache is full and the first text has been evicted from it.
FullCacheHasEvicted ==
    /\ Len(commandTokensCache) = MAX_CACHE_SIZE
    /\ ~CacheHas(commandTokensCache, CacheText(1))

\* what getCommandSemanticTokens computes for a text when it finds nothing in
\* the cache
ComputedTokens(cmd) ==
    IF ~initialized \/ commandTree = NoTree
    THEN getFallbackSemanticTokens(cmd).tokens
    ELSE ClassifyWalk(tokenizeWithRanges(cmd)).tokens

InsertEvictsEarliestOnly ==
    [][(op = "idle" /\ op' = "getCommandSemanticTokens") =>
          IF CacheHas(commandTokensCache, command)
          THEN commandTokensCache' = commandTokensCache
          ELSE (initialized /\ commandTree # NoTree
                  /\ Len(commandTokensCache) = MAX_CACHE_SIZE) =>
                  /\ Len(commandTokensCache') = MAX_CACHE_SIZE
                  /\ \A k \in 2..MAX_CACHE_SIZE :
                        commandTokensCache'[k - 1] = commandTokensCache[k]
                  /\ ~CacheHas(commandTokensCache', commandTokensCache[1].key)
                  /\ commandTokensCache'[MAX_CACHE_SIZE].key = command]_vars

\* C20 witness: the text after the hundredth has just been inserted into the
\* full cache, whose oldest entry is now the second text.
InsertedIntoFullCache ==
    /\ op = "getCommandSemanticTokens"
    /\ command = CacheText(MAX_CACHE_SIZE + 1)
    /\ Len(commandTokensCache) = MAX_CACHE_SIZE
    /\ commandTokensCache[1].key = CacheText(2)
    /\ commandTokensCache[MAX_CACHE_SIZE].key = command

-----------------------------------------------------------------------------
(* The life of the grammar snapshot: initialize interleaved with the calls *)

\* the number of initialize calls that may await their fetch at one time
MaxPending == 2

\* `private registries: RegistryData = {}`
NoRegistries == [k \in {} |-> <<>>]

\* the version initialize falls back to
FallbackVersion == "1.21.1"

\* the versions asked for
Versions == {"1.21.11", FallbackVersion}

\* what the two fetches of a version deliver
TreeOf(ver) ==
    IF ver = FallbackVersion
    THEN Grammar("minecraft:vec3", "minecraft:entity", "minecraft:vec3", ToEx, ToTp)
    ELSE Grammar("brigadier:integer", "brigadier:string", "brigadier:string", ToEx, ToTp)

RegistriesOf(ver) ==
    IF ver = FallbackVersion
    THEN [k \in {"item"} |-> << MinecraftPrefix \o <<"t", "p">> >>]
    ELSE ModelRegistries

\* the lines the editor asks about
LifeCommands ==
    { <<"t", "p", " ", "d", "e", "s", "t", " ", "1">>,
      <<"t", "p", " ", "l", "o", "c", " ", "@", "e">>,
      <<"t", "p", " ", "a", "t">>,
      <<"1", " ", "a", "d", "d">> }

LifeInit ==
    /\ pending = {}
    /\ initialized = FALSE
    /\ commandTree = NoTree
    /\ registries = NoRegistries
    /\ commandTokensCache = <<>>
    /\ command \in LifeCommands
    /\ op = "idle"
    /\ arg = <<>>
    /\ out = <<>>

\* initialize(mcVersion) up to its first await: the two fetches of the
\* version are under way
Initialize ==
    /\ op = "idle"
    /\ Cardinality(pending) < MaxPending
    /\ \E ver \in Versions, slot \in 1..MaxPending :
        /\ \A f \in pending : f.slot # slot
        /\ pending' = pending \cup {[slot |-> slot, ver |-> ver, fallback |-> FALSE]}
    /\ UNCHANGED <<initialized, commandTree, registries, commandTokensCache, command, op, arg, out>>

\* a resolved initialize that stores the tree and the flag but not the
\* registries
FetchResolvedTreeOnly ==
    /\ op = "idle"
    /\ \E f \in pending :
        /\ pending' = pending \ {f}
        /\ commandTree' = TreeOf(f.ver)
        /\ initialized' = TRUE
    /\ UNCHANGED <<registries, commandTokensCache, command, op, arg, out>>

\* both fetches of a pending initialize have resolved: the code after the
\* await stores the tree, the registries and the flag in one turn
FetchResolved ==
    /\ op = "idle"
    /\ \E f \in pending :
        /\ pending' = pending \ {f}
        /\ commandTree' = TreeOf(f.ver)
        /\ registries' = RegistriesOf(f.ver)
        /\ initialized' = TRUE
    /\ UNCHANGED <<commandTokensCache, command, op, arg, out>>

\* a fetch of a pending initialize was rejected: the first time the fetches
\* of the fallback version start, the second time the flag is cleared
FetchRejected ==
    /\ op = "idle"
    /\ \E f \in pending :
        IF f.fallback
        THEN /\ pending' = pending \ {f}
             /\ initialized' = FALSE
        ELSE /\ pending' = (pending \ {f})
                              \cup {[slot |-> f.slot, ver |-> FallbackVersion, fallback |-> TRUE]}
             /\ UNCHANGED initialized
    /\ UNCHANGED <<commandTree, registries, commandTokensCache, command, op, arg, out>>

LifeNext ==
    \/ Initialize
    \/ FetchResolved
    \/ FetchRejected
    \/ ValidateCommand
    \/ GetCommandCompletions
    \/ GetCommandSemanticTokens
    \/ Return

LifeSpec == LifeInit /\ [][LifeNext]_vars

-----------------------------------------------------------------------------
(* Properties of the manager over the life of the snapshot *)

\* no grammar snapshot is loaded: initialize never succeeded, or it failed
NoSnapshot == ~initialized \/ commandTree = NoTree

\* C21: while no grammar snapshot is loaded validateCommand returns the empty
\* list, getCommandCompletions returns the empty list and
\* getCommandSemanticTokens returns the fallback classification of its text.
NoSnapshotDegradesEveryCall ==
    NoSnapshot =>
        /\ op = "validateCommand" => out = <<>>
        /\ op = "getCommandCompletions" => out = <<>>
        /\ op = "getCommandSemanticTokens" =>
              /\ out.returns
              /\ out.tokens = getFallbackSemanticTokens(command).tokens

\* C22: validateCommand and getCommandCompletions change no state of the
\* manager; getCommandSemanticTokens changes nothing but the span cache.
CallsLeaveTheSnapshotAlone ==
    [][(op = "idle" /\ op' \in {"validateCommand", "getCommandCompletions",
                                "getCommandSemanticTokens"}) =>
          /\ UNCHANGED <<initialized, commandTree, registries>>
          /\ op' # "getCommandSemanticTokens" => UNCHANGED commandTokensCache]_vars

\* C22 witness: validateCommand has returned errors with a snapshot loaded
\* and a span cached by an earlier getCommandSemanticTokens.
ValidatedWithSpansCached ==
    /\ op = "validateCommand"
    /\ out # <<>>
    /\ commandTokensCache # <<>>
    /\ commandTree = TreeOf(FallbackVersion)
    /\ registries = RegistriesOf(FallbackVersion)

\* C23: the tree and the registries in place at any moment, so those any
\* call observes, come from one fetch of one version, or are both those the
\* manager was built with; and when the flag is set both are present.
SnapshotIsOnePair ==
    /\ \/ commandTree = NoTree /\ registries = NoRegistries
       \/ \E ver \in Versions :
             commandTree = TreeOf(ver) /\ registries = RegistriesOf(ver)
    /\ initialized => commandTree # NoTree /\ registries # NoRegistries

\* C23 witness: a call observes the snapshot of the fallback version while an
\* initialize for another version awaits its fetch.
CallBetweenTwoInitializes ==
    /\ op \in {"validateCommand", "getCommandCompletions", "getCommandSemanticTokens"}
    /\ initialized
    /\ commandTree = TreeOf(FallbackVersion)
    /\ \E f \in pending : f.ver # FallbackVersion

\* C29: getCommandSemanticTokens returns the spans that classifying its text
\* from scratch gives under the snapshot loaded at the time of the call, or
\* under the fallback classifier when none is loaded; initialize calls that
\* went before make no difference.
SpansAreThoseOfTheLoadedSnapshot ==
    op = "getCommandSemanticTokens" =>
        out.tokens = IF NoSnapshot THEN getFallbackSemanticTokens(command).tokens
                     ELSE ClassifyWalk(tokenizeWithRanges(command)).tokens

-----------------------------------------------------------------------------
(* Properties of the token `run` in the walks *)

\* the node set and the executable flag the step of validateCommand at st
\* arrives at when its token matches no literal child and nothing but the
\* match is taken into account: the first argument child of the current
\* nodes, or no move at all
StepWithoutLiteral(tokens, st) ==
    LET argAt == FirstIndex(st.currentNodes, LAMBDA id : HasArgumentChild(id))
        child == FirstArgumentChild(st.currentNodes[argAt]).id
        count == getParserTokenCount(commandTree[child].parser)
        last == st.tokenIndex + 1 + Max(0, count - 1) >= Len(tokens)
    IN IF argAt = 0
       THEN [currentNodes |-> st.currentNodes, hasExecutable |-> st.hasExecutable]
       ELSE [currentNodes |-> <<TargetOf(child)>>,
             hasExecutable |-> IF commandTree[child].redirect # NoRedirect /\ ~last THEN FALSE
                               ELSE st.hasExecutable \/ commandTree[child].executable]

RECURSIVE RunResetsOnlyAsLiteral(_, _)
\* from the walk state st on, every step whose token is `run` without being
\* a literal child of the current nodes ends where StepWithoutLiteral says
RunResetsOnlyAsLiteral(tokens, st) ==
    IF st.tokenIndex >= Len(tokens) THEN TRUE
    ELSE LET token == tokens[st.tokenIndex + 1]
             asLiteral == \E k \in 1..Len(st.currentNodes) :
                              HasLiteralChild(st.currentNodes[k], token)
             next == ValidateIter(tokens, st)
             normal == StepWithoutLiteral(tokens, st)
         IN /\ (token = <<"r", "u", "n">> /\ ~asLiteral) =>
                   /\ next.currentNodes = normal.currentNodes
                   /\ next.hasExecutable = normal.hasExecutable
            /\ RunResetsOnlyAsLiteral(tokens, next)

\* C30: in validateCommand a token `run` that was consumed as the value of an
\* argument, or that matched nothing, leaves the current node set and the
\* executable flag as the step computed them; only `run` matched as a literal
\* child sends the walk back to the root and clears the flag.
RunAsValueDoesNotReset ==
    (op = "validateCommand" /\ Walks(command)) =>
        RunResetsOnlyAsLiteral(TokensOf(command),
            [currentNodes |-> <<RootId>>, tokenIndex |-> 0,
             currentOffset |-> StartOffset(command), hasExecutable |-> FALSE,
             errors |-> <<>>])

RECURSIVE LiteralsTyped(_, _, _, _)
\* from the walk state st on, every token matched as a literal gets the one
\* span the rule gives it; first says that no literal was matched before,
\* afterRun that the token before this one was `run` matched as a literal
LiteralsTyped(ranges, st, first, afterRun) ==
    IF st.tokenIndex >= Len(ranges) \/ st.done \/ st.stuck THEN TRUE
    ELSE LET token == ranges[st.tokenIndex + 1]
             tokenValue == IF StartsWith(token.value, <<"/">>) THEN Tail(token.value)
                           ELSE token.value
             asLiteral == \E k \in 1..Len(st.currentNodes) :
                              HasLiteralChild(st.currentNodes[k], tokenValue)
             next == ClassifyIter(ranges, st)
         IN /\ asLiteral =>
                  next.tokens = Append(st.tokens,
                      Span(token.start, token.length,
                           IF first \/ afterRun THEN "keyword" ELSE "function"))
            /\ LiteralsTyped(ranges, next, first /\ ~asLiteral,
                             asLiteral /\ tokenValue = <<"r", "u", "n">>)

\* C27: with a grammar loaded, getCommandSemanticTokens classifies the first
\* token matched as a literal, and every literal matched right after a
\* literal `run`, as keyword, and every other matched literal as function.
LiteralsAreKeywordOrFunction ==
    (op = "getCommandSemanticTokens" /\ initialized /\ commandTree # NoTree) =>
        LiteralsTyped(tokenizeWithRanges(command), ClassifyWalk(<<>>), TRUE, FALSE)

\* C27 witness: a command whose three tokens were matched as literals, the
\* second of them `run`, has got keyword, function, keyword.
KeywordAgainAfterRun ==
    /\ op = "getCommandSemanticTokens"
    /\ Len(out.tokens) = 3
    /\ TokensOf(command)[2] = <<"r", "u", "n">>
    /\ out.tokens[1].tokenType = "keyword"
    /\ out.tokens[2].tokenType = "function"
    /\ out.tokens[3].tokenType = "keyword"

-----------------------------------------------------------------------------
(* The registry check of the validator applied to one token and one node *)

\* the most characters a suffix holds between its brackets
MaxSuffixLen == 3

\* the identifiers: one the registries hold and one they do not
RegIds == { <<"t", "p">>, <<"z", "z">> }

\* the bodies of the suffixes
SuffixBodies == UNION {[1..n -> {"a", ":"}] : n \in 0..MaxSuffixLen}

\* no suffix, a block-state suffix, a data suffix
Suffixes == {<<>>} \cup {<<"[">> \o b \o <<"]">> : b \in SuffixBodies}
                   \cup {<<"{">> \o b \o <<"}">> : b \in SuffixBodies}

\* the tokens: an identifier, bare or namespaced, with or without "#", and
\* a suffix
RegTokens ==
    { hash \o ns \o id \o suffix :
        hash \in {<<>>, <<"#">>}, ns \in {<<>>, MinecraftPrefix}, id \in RegIds,
        suffix \in Suffixes }

\* registries that store their entries bare, and with the default namespace
RegStores ==
    { [k \in {"item", "recipe"} |-> << <<"t", "p">> >>],
      [k \in {"item", "recipe"} |-> << MinecraftPrefix \o <<"t", "p">> >>] }

\* argument nodes of the parsers the resolution rules tell apart
RegNodes ==
    { Argument(p, <<>>, TRUE, NoRedirect) :
        p \in {"minecraft:item_stack", "minecraft:resource_location", "minecraft:recipe",
               "minecraft:entity", "brigadier:string"} }
    \cup { Node("argument", <<>>, TRUE, "minecraft:resource_key", "minecraft:item", NoRedirect) }

\* the names of the argument nodes: one of the heuristic table, one of none
RegNames == { <<"r", "e", "c", "i", "p", "e">>, <<"i", "d">> }

RegInit ==
    /\ pending = {}
    /\ initialized = TRUE
    /\ commandTree = ScanGrammar
    /\ registries \in RegStores
    /\ commandTokensCache = <<>>
    /\ command \in RegTokens
    /\ op = "idle"
    /\ arg = <<>>
    /\ out = <<>>

\* validateArgument(token, node, offset) as validateCommand calls it for the
\* argument child named nodeName
ValidateArgument ==
    /\ op = "idle"
    /\ \E node \in RegNodes, nodeName \in RegNames :
        /\ arg' = [node |-> node, nodeName |-> nodeName]
        /\ out' = validateArgument(command, node, 0)
    /\ op' = "validateArgument"
    /\ UNCHANGED <<pending, initialized, commandTree, registries, commandTokensCache, command>>

\* resolveRegistryKey(node, nodeName) as addArgumentCompletions calls it
ResolveRegistryKey ==
    /\ op = "idle"
    /\ \E node \in RegNodes, nodeName \in RegNames :
        /\ arg' = [node |-> node, nodeName |-> nodeName]
        /\ out' = resolveRegistryKey(node, nodeName)
    /\ op' = "resolveRegistryKey"
    /\ UNCHANGED <<pending, initialized, commandTree, registries, commandTokensCache, command>>

RegNext ==
    \/ ValidateArgument
    \/ ResolveRegistryKey
    \/ Return

RegSpec == RegInit /\ [][RegNext]_vars

-----------------------------------------------------------------------------
(* Properties of the registry check *)

\* the result is an 'Unknown <registry>' warning
IsUnknownEntry(result) ==
    result # NoError /\ result.message.kind = "Unknown registry entry"

\* the identifier of a token: the token up to its suffix, without "#"
IdOf(token) ==
    LET noHash == IF StartsWith(token, <<"#">>) THEN Tail(token) ELSE token
    IN CutAtChar(CutAtChar(noHash, "["), "{")

\* the registry key holds the identifier, written bare or with the default
\* namespace, whichever way the registry stores its entries
HoldsId(key, id) ==
    LET bare == IF StartsWith(id, MinecraftPrefix) THEN RemoveFirst(id, MinecraftPrefix)
                ELSE id
    IN \/ SeqIncludes(registries[key], bare)
       \/ SeqIncludes(registries[key], MinecraftPrefix \o bare)

\* C24: the registry validateArgument checks a token against is the one
\* resolveRegistryKey gives for the node and its name, the registry the
\* completions of that node come from: a warning names that registry, and a
\* token without suffix that the registry does not hold gets the warning.
ValidatorChecksTheCompletionRegistry ==
    op = "validateArgument" =>
        LET key == resolveRegistryKey(arg.node, arg.nodeName)
        IN /\ IsUnknownEntry(out) => out.message.registry = key
           /\ ( /\ key # ""
                /\ ArgumentFormatError(command, arg.node.parser, 0) = NoError
                /\ IdOf(command) = (IF StartsWith(command, <<"#">>) THEN Tail(command)
                                    ELSE command)
                /\ ~HoldsId(key, IdOf(command)) )
              => IsUnknownEntry(out)

\* the token without its suffix
WithoutSuffix(token) == CutAtChar(CutAtChar(token, "["), "{")

\* C25: validateArgument gives the 'Unknown <registry>' warning for an
\* identifier followed by a suffix that begins with "[" or "{" exactly when
\* it gives one for the identifier alone, however the registry stores its
\* entries.
SuffixDoesNotChangeMembership ==
    op = "validateArgument" =>
        (IsUnknownEntry(out)
            <=> IsUnknownEntry(validateArgument(WithoutSuffix(command), arg.node, 0)))

-----------------------------------------------------------------------------
(* Completion at every cursor position of a few lines *)

\* lines that bring the cursor into a selector key, a selector value, a tag
\* list, coordinates and the default context
CompletionLines ==
    { <<"t", "p", " ", "@", "e", "[", "t", "a", "g", "=", "t">>,
      <<"t", "p", " ", "@", "e", "[", "t", "y", "p", "e", "=", "a", ",", "g", "a", "m", "e", "m", "o", "d", "e", "=", "s">>,
      <<"t", "a", "g", " ", "1", " ", "a", "d", "d", " ", "t">>,
      <<"t", "p", " ", "d", "e", "s", "t", " ", "1", " ", "2">>,
      <<"t", "p", " ", "d", "e", "s", "t", " ", "{", "T", "a", "g", "s", ":", "[", "t">> }

\* the text the user has typed so far: every beginning of such a line
CompletionTexts ==
    UNION {{SubSeq(line, 1, n) : n \in 0..Len(line)} : line \in CompletionLines}

CompletionInit ==
    /\ pending = {}
    /\ initialized = TRUE
    /\ commandTree \in Grammars
    /\ registries = ModelRegistries
    /\ commandTokensCache = <<>>
    /\ command \in CompletionTexts
    /\ op = "idle"
    /\ arg = <<>>
    /\ out = <<>>

CompletionNext ==
    \/ GetCommandCompletions
    \/ Return

CompletionSpec == CompletionInit /\ [][CompletionNext]_vars

-----------------------------------------------------------------------------
(* Properties of the completion list *)

\* C26: the list one getCommandCompletions call returns never holds two items
\* with the same label, whatever the context of the cursor and whatever the
\* list of available tags, one with repeated entries included.
CompletionLabelsAreDistinct ==
    op = "getCommandCompletions" =>
        \A i, j \in 1..Len(out) : i # j => out[i].label # out[j].label

-----------------------------------------------------------------------------
(* Properties of the spans of getCommandSemanticTokens *)

\* the span lies inside the range of one of the tokens
InsideAToken(span, ranges) ==
    \E k \in 1..Len(ranges) :
        /\ ranges[k].start <= span.start
        /\ span.start + span.length <= ranges[k].start + ranges[k].length

\* C28: the spans getCommandSemanticTokens returns come in strictly
\* increasing order of their starts, no two of them overlap, and each lies
\* inside the range of a token of the command.
SpansAreOrderedAndInsideTokens ==
    (op = "getCommandSemanticTokens" /\ out.returns) =>
        /\ \A k \in 1..(Len(out.tokens) - 1) :
              /\ out.tokens[k].start < out.tokens[k + 1].start
              /\ out.tokens[k].start + out.tokens[k].length <= out.tokens[k + 1].start
        /\ \A k \in 1..Len(out.tokens) :
              /\ out.tokens[k].length >= 0
              /\ InsideAToken(out.tokens[k], tokenizeWithRanges(command))

====
